---- MODULE Spec2Model ----
(***************************************************************************)
(* Model of the real-time market-data synchronisation layer of rdex:       *)
(*   - WebSocketManager (src/lib/kline/WebSocketManager.ts)                *)
(*   - DataCache        (src/hooks/useBinanceTrades.ts, class DataCache)   *)
(* The browser is the environment: it dispatches socket events and timers, *)
(* one handler per step (single-threaded event loop).                      *)
(***************************************************************************)
EXTENDS Integers, Sequences, FiniteSets, TLC

(* ------------------------------ bounds --------------------------------- *)
\* socket objects that are alive (not yet garbage) at the same time
MaxSockets == 2
\* subscription objects that are alive at the same time
MaxSubs == 2

\* the clock (Date.now()) runs from 0 to MaxTime
MaxTime == 2
\* records in one klines response
MaxRecords == 2
\* candles in the query data a mounted hook appends to
MaxCandles == 2
\* sockets of useBinanceOrderBook that are alive at the same time
MaxDepthSockets == 2
\* addTrade calls followed from a starting point
MaxAdds == 3

(* ------------------------------ inputs --------------------------------- *)
Keys == {"k1", "k2"}
\* the listeners: f returns normally, g throws on every message it is given
Callbacks == {"f", "g"}
Throwing == {"g"}
\* "wss://a" is accepted by the WebSocket constructor, "bad#" makes it throw
Urls == {"wss://a", "bad#"}
\* values passed as maxReconnectAttempts (5 is the default parameter value)
AttemptLimits == {5}

\* DataCache: keys, payloads and the expiry arguments of set (Undefined: omitted)
CacheKeys == {"a", "b", "c"}
Payloads == {"v1", "v2"}
Undefined == -1
Expiries == {Undefined, 0, 1}
\* arguments of setMaxSize and setDefaultExpiry
Sizes == {1, 2}
DefaultExpiries == {1}
\* private maxSize = 50 and private defaultExpiry = 5 * 60 * 1000
InitialMaxSize == 50
InitialDefaultExpiry == 300000

NoSub == 0
NoSock == 0
NoTimer == 0

VARIABLES
  subscriptions,   \* Map key -> subscription object (NoSub: no entry)
  subObjs,         \* the WebSocketSubscription objects that are alive, oldest first
  connections,     \* Map key -> WebSocket object (NoSock: no entry)
  sockets,         \* the WebSocket objects that are alive, oldest first
  reconnectTimers, \* Map key -> pending timer, valued by its delay (NoTimer: no entry)
  delayLog,        \* per subscription object: delays scheduled since creation / last open
  handles,         \* unsubscribe closures returned so far, as <<key, callback>>
  live,            \* <<key, callback>> subscribed and not unsubscribed since
  closures,        \* stale: <<key, callback>> of a closure that was invoked, or whose
                   \* subscription destroy() discarded; twice: <<key, callback>> that a
                   \* subscribe call registered while it was registered already;
                   \* left: of two such closures one was invoked, the other not yet
  dispatch,        \* what the last ws.onmessage run did (reset by every other handler)
  cache,           \* DataCache.cache: the Map's entries in insertion order
  maxSize,         \* DataCache.maxSize
  defaultExpiry,   \* DataCache.defaultExpiry
  now,             \* Date.now()
  ret,             \* what the last direct call of a DataCache method returned
  recency,         \* the stored keys, least recently used first
  evicted,         \* the entry the last DataCache.set evicted, if any
  source,          \* the BinanceDataSource instance: its constructor options
  fetch,           \* the fetchHistorical call in progress or completed last
  second,          \* a fetchHistorical call made after that one began
  stream,          \* the closure of one BinanceDataSource.subscribe call
  hook,            \* one mounted useKlineSubscription and the query data it updates
  orderBook,       \* useOrderBookStore: bids and asks
  applied,         \* the batch the last updateOrderBook call was given, if any
  depth,           \* one mounted useBinanceOrderBook and the sockets its effects made
  tradeStore,      \* useTradeStore: trades, lastPrice, priceChange
  added            \* the trades given to addTrade since the last reset, newest first

mgrVars == <<subscriptions, subObjs, connections, sockets, reconnectTimers,
             delayLog, handles, live, closures, dispatch>>

cacheVars == <<cache, maxSize, defaultExpiry, now, ret, recency, evicted>>

rtVars == <<stream, hook>>

srcVars == <<source, fetch, second, rtVars>>

bookVars == <<orderBook, applied, depth>>

mktVars == <<bookVars, tradeStore, added>>

vars == <<mgrVars, cacheVars, srcVars, mktVars>>

(* ------------------------- helper operators ---------------------------- *)
Min(a, b) == IF a <= b THEN a ELSE b

RECURSIVE Pow2(_)
Pow2(n) == IF n <= 0 THEN 1 ELSE 2 * Pow2(n - 1)

SeqToSet(s) == {s[i] : i \in 1..Len(s)}

RECURSIVE SeqRemove(_, _)
SeqRemove(s, x) ==
  IF s = <<>> THEN <<>>
  ELSE IF Head(s) = x THEN SeqRemove(Tail(s), x)
       ELSE <<Head(s)>> \o SeqRemove(Tail(s), x)

\* a listener list that takes a callback once per call
SetAddAgain(s, x) == Append(s, x)

\* Set.add on an insertion-ordered set
SetAdd(s, x) == IF x \in SeqToSet(s) THEN s ELSE Append(s, x)

\* Set.delete on an insertion-ordered set
SetDelete(s, x) == SeqRemove(s, x)

\* a socket whose close event was dispatched: no handler of it runs again
DeadSocket == [key |-> "", sub |-> NoSub, readyState |-> "NONE"]

NoDispatch == [delivered |-> <<>>, threw |-> {}, escaped |-> FALSE]

\* new WebSocket(url) throws a SyntaxError for a URL it cannot use
CanConstruct(url) == url = "wss://a"

\* the manager's fields as one value, so that the private methods compose
Mgr == [subscriptions |-> subscriptions, subObjs |-> subObjs,
        connections |-> connections, sockets |-> sockets,
        reconnectTimers |-> reconnectTimers, delayLog |-> delayLog]

SockIds == 1..Len(sockets)

\* a socket the network still serves: connecting or open
Alive(sock) == sock.readyState \in {"CONNECTING", "OPEN"}

\* position of i among the members of S, 0 for NoSub / NoSock
Rank(i, S) == IF i \in S THEN Cardinality({j \in S : j <= i}) ELSE 0

\* the members of seq at the positions S, in order
Compact(seq, S) ==
  [n \in 1..Cardinality(S) |-> seq[CHOOSE i \in S : Rank(i, S) = n]]

\* A subscription object that left the subscriptions map never returns to it.
\* The handlers of its sockets still write its state and counter, but nothing
\* reads them again: getState, connect and scheduleReconnect go through the map.
\* Only its callbacks are still read (by ws.onmessage and ws.onclose).
Discarded(sub) ==
  [sub EXCEPT !.state = "DISCARDED", !.reconnectAttempts = 0,
              !.maxReconnectAttempts = 0, !.url = ""]

\* Garbage collection. A socket is garbage once its close event was dispatched;
\* a subscription object is kept alive by the subscriptions map and by the
\* handlers of a socket that is not garbage. Objects are identified by their
\* position, so the references to the survivors are renumbered.
Collect(m) ==
  LET socks == {s \in 1..Len(m.sockets) : m.sockets[s].readyState # "NONE"}
      mapped == {m.subscriptions[k] : k \in Keys} \ {NoSub}
      subs == mapped \cup ({m.sockets[s].sub : s \in socks} \ {NoSub})
  IN [subscriptions |-> [k \in Keys |-> Rank(m.subscriptions[k], subs)],
      subObjs |-> Compact([i \in 1..Len(m.subObjs) |->
                            IF i \in mapped THEN m.subObjs[i]
                            ELSE Discarded(m.subObjs[i])], subs),
      connections |-> [k \in Keys |-> Rank(m.connections[k], socks)],
      sockets |-> Compact([s \in 1..Len(m.sockets) |->
                            [m.sockets[s] EXCEPT !.sub = Rank(@, subs)]], socks),
      reconnectTimers |-> m.reconnectTimers,
      delayLog |-> Compact([i \in 1..Len(m.delayLog) |->
                            IF i \in mapped THEN m.delayLog[i] ELSE <<>>], subs)]

(* --------------------- WebSocketManager methods ------------------------ *)
\* the exponent taken from the attempt number instead of attempt - 1
BackoffOffByOne(attempts) == Min(1000 * Pow2(attempts), 16000)

\* Math.min(1000 * Math.pow(2, subscription.reconnectAttempts - 1), 16000)
Backoff(attempts) == Min(1000 * Pow2(attempts - 1), 16000)

scheduleReconnect(m, key) ==
  LET id == m.subscriptions[key] IN
  IF id = NoSub THEN m
  ELSE LET sub == m.subObjs[id] IN
    IF sub.reconnectAttempts >= sub.maxReconnectAttempts
    THEN [m EXCEPT !.subObjs[id].state = "FAILED"]
    ELSE LET n == sub.reconnectAttempts + 1 IN
      [m EXCEPT !.subObjs[id].reconnectAttempts = n,
                !.subObjs[id].state = "RECONNECTING",
                !.reconnectTimers[key] = Backoff(n),
                !.delayLog[id] = Append(@, Backoff(n))]

connect(m, key) ==
  LET id == m.subscriptions[key] IN
  IF id = NoSub THEN m
  ELSE IF CanConstruct(m.subObjs[id].url)
    THEN LET ws == Len(m.sockets) + 1 IN
      [m EXCEPT !.sockets = Append(@, [key |-> key, sub |-> id, readyState |-> "CONNECTING"]),
                !.connections[key] = ws,
                !.subObjs[id].state = "CONNECTING"]
    ELSE scheduleReconnect([m EXCEPT !.subObjs[id].state = "FAILED"], key)

\* connect(key) needs a socket object when it reaches new WebSocket(url)
ConnectFits(m, key) ==
  LET id == m.subscriptions[key] IN
  (id # NoSub /\ CanConstruct(m.subObjs[id].url)) => Len(m.sockets) < MaxSockets

closeConnection(m, key) ==
  LET ws == m.connections[key]
      closed == IF ws # NoSock /\ m.sockets[ws].readyState = "OPEN"
                THEN [m EXCEPT !.sockets[ws].readyState = "CLOSING"]
                ELSE m
  IN [closed EXCEPT !.connections[key] = NoSock,
                    !.subscriptions[key] = NoSub,
                    !.reconnectTimers[key] = NoTimer]

getState(key) ==
  IF subscriptions[key] = NoSub THEN "undefined" ELSE subObjs[subscriptions[key]].state

\* install the manager's fields for the next state
Install(m) ==
  \E v \in {m} : \E c \in {Collect(v)} :
  /\ subscriptions' = c.subscriptions
  /\ subObjs' = c.subObjs
  /\ connections' = c.connections
  /\ sockets' = c.sockets
  /\ reconnectTimers' = c.reconnectTimers
  /\ delayLog' = c.delayLog

(* ------------------------------ actions -------------------------------- *)
\* the error and the close event of one failure are dispatched in the same
\* task: nothing else runs between the two handlers
InTask == \E s \in SockIds : sockets[s].readyState = "CLOSED"

\* subscribe that connects on every call, also for an existing subscription
subscribeAlwaysConnects(m, key, url, callback, maxReconnectAttempts) ==
  IF m.subscriptions[key] # NoSub
  THEN connect([m EXCEPT !.subObjs[m.subscriptions[key]].callbacks = SetAdd(@, callback)], key)
  ELSE LET id == Len(m.subObjs) + 1
           subscription == [key |-> key, url |-> url, callbacks |-> <<callback>>,
                            state |-> "CONNECTING", reconnectAttempts |-> 0,
                            maxReconnectAttempts |-> maxReconnectAttempts]
       IN connect([m EXCEPT !.subObjs = Append(@, subscription),
                            !.delayLog = Append(@, <<>>),
                            !.subscriptions[key] = id], key)

\* subscribe that starts a new connection attempt when it finds the
\* subscription of the key FAILED
subscribeRestartsFailed(m, key, url, callback, maxReconnectAttempts) ==
  IF m.subscriptions[key] # NoSub
  THEN LET id == m.subscriptions[key]
           joined == [m EXCEPT !.subObjs[id].callbacks = SetAdd(@, callback)]
       IN IF m.subObjs[id].state = "FAILED"
          THEN connect([joined EXCEPT !.subObjs[id].reconnectAttempts = 0], key)
          ELSE joined
  ELSE LET id == Len(m.subObjs) + 1
           subscription == [key |-> key, url |-> url, callbacks |-> <<callback>>,
                            state |-> "CONNECTING", reconnectAttempts |-> 0,
                            maxReconnectAttempts |-> maxReconnectAttempts]
       IN connect([m EXCEPT !.subObjs = Append(@, subscription),
                            !.delayLog = Append(@, <<>>),
                            !.subscriptions[key] = id], key)

subscribe(m, key, url, callback, maxReconnectAttempts) ==
  IF m.subscriptions[key] # NoSub
  THEN [m EXCEPT !.subObjs[m.subscriptions[key]].callbacks = SetAdd(@, callback)]
  ELSE LET id == Len(m.subObjs) + 1
           subscription == [key |-> key, url |-> url, callbacks |-> <<callback>>,
                            state |-> "CONNECTING", reconnectAttempts |-> 0,
                            maxReconnectAttempts |-> maxReconnectAttempts]
       IN connect([m EXCEPT !.subObjs = Append(@, subscription),
                            !.delayLog = Append(@, <<>>),
                            !.subscriptions[key] = id], key)

\* The url of a key never changes (a different url under an existing key is
\* excluded by the contract of subscribe); a new subscription needs room for
\* its objects.
SubscribeCall(key, url, callback, maxReconnectAttempts) ==
  /\ ~InTask
  /\ IF subscriptions[key] # NoSub
     THEN /\ url = subObjs[subscriptions[key]].url
          /\ maxReconnectAttempts = subObjs[subscriptions[key]].maxReconnectAttempts
     ELSE /\ Len(subObjs) < MaxSubs
          /\ CanConstruct(url) => Len(sockets) < MaxSockets
  /\ handles' = handles \cup {<<key, callback>>}
  /\ live' = live \cup {<<key, callback>>}
  /\ dispatch' = NoDispatch
  /\ UNCHANGED <<cacheVars, srcVars, mktVars>>
  /\ Install(subscribe(Mgr, key, url, callback, maxReconnectAttempts))

Subscribe(key, url, callback, maxReconnectAttempts) ==
  /\ SubscribeCall(key, url, callback, maxReconnectAttempts)
  /\ UNCHANGED closures

\* subscribe, with the closures it returns told apart: a call that registers a
\* callback the subscription holds already makes a second closure for it
SubscribeTracked(key, url, callback, maxReconnectAttempts) ==
  /\ SubscribeCall(key, url, callback, maxReconnectAttempts)
  /\ closures' = IF /\ subscriptions[key] # NoSub
                    /\ callback \in SeqToSet(subObjs[subscriptions[key]].callbacks)
                 THEN [closures EXCEPT !.twice = @ \cup {<<key, callback>>}]
                 ELSE closures

\* unsubscribe that closes the connection whatever is left in the listener set
unsubscribeClosesAlways(m, key, callback) ==
  LET id == m.subscriptions[key] IN
  IF id = NoSub THEN m
  ELSE closeConnection([m EXCEPT !.subObjs[id].callbacks = SetDelete(@, callback)], key)

unsubscribe(m, key, callback) ==
  LET id == m.subscriptions[key] IN
  IF id = NoSub THEN m
  ELSE LET removed == [m EXCEPT !.subObjs[id].callbacks = SetDelete(@, callback)] IN
    IF Len(removed.subObjs[id].callbacks) = 0
    THEN closeConnection(removed, key)
    ELSE removed

UnsubscribeCall(key, callback) ==
  /\ ~InTask
  /\ <<key, callback>> \in handles
  /\ live' = live \ {<<key, callback>>}
  /\ dispatch' = NoDispatch
  /\ UNCHANGED handles
  /\ UNCHANGED <<cacheVars, srcVars, mktVars>>
  /\ Install(unsubscribe(Mgr, key, callback))

Unsubscribe(key, callback) ==
  /\ UnsubscribeCall(key, callback)
  /\ UNCHANGED closures

\* the call of a closure subscribe returned: the closure is stale from now on,
\* and of two closures of one callback one is left
UnsubscribeTracked(key, callback) ==
  /\ UnsubscribeCall(key, callback)
  /\ closures' = [stale |-> closures.stale \cup {<<key, callback>>},
                  twice |-> closures.twice \ {<<key, callback>>},
                  left |-> IF <<key, callback>> \in closures.twice
                           THEN closures.left \cup {<<key, callback>>}
                           ELSE closures.left \ {<<key, callback>>}]

\* forEach without the try/catch around each callback: the first exception
\* ends the loop (the outer try/catch of ws.onmessage takes it)
RECURSIVE forEachNoIsolation(_, _)
forEachNoIsolation(callbacks, throwers) ==
  IF callbacks = <<>> THEN <<>>
  ELSE IF Head(callbacks) \in throwers THEN <<Head(callbacks)>>
  ELSE <<Head(callbacks)>> \o forEachNoIsolation(Tail(callbacks), throwers)

\* subscription.callbacks.forEach with the try/catch around each callback:
\* every callback is invoked, whichever of them throw
RECURSIVE forEach(_, _)
forEach(callbacks, throwers) ==
  IF callbacks = <<>> THEN <<>>
  ELSE <<Head(callbacks)>> \o forEach(Tail(callbacks), throwers)

\* ws.onmessage: JSON.parse, then the dispatch; both inside try/catch
onmessage(callbacks, parses, throwers) ==
  IF ~parses THEN NoDispatch
  ELSE LET invoked == forEach(callbacks, throwers) IN
       [delivered |-> invoked, threw |-> throwers \cap SeqToSet(invoked), escaped |-> FALSE]

\* ws.onopen without subscription.reconnectAttempts = 0
SocketOpenKeepsAttempts(s) ==
  /\ s \in SockIds
  /\ ~InTask
  /\ sockets[s].readyState = "CONNECTING"
  /\ LET id == sockets[s].sub IN
       Install([Mgr EXCEPT !.sockets[s].readyState = "OPEN",
                           !.subObjs[id].state = "CONNECTED",
                           !.delayLog[id] = <<>>])
  /\ dispatch' = NoDispatch
  /\ UNCHANGED <<handles, live, closures>>
  /\ UNCHANGED <<cacheVars, srcVars, mktVars>>

SocketOpen(s) ==
  /\ s \in SockIds
  /\ ~InTask
  /\ sockets[s].readyState = "CONNECTING"
  /\ LET id == sockets[s].sub IN
       Install([Mgr EXCEPT !.sockets[s].readyState = "OPEN",
                           !.subObjs[id].state = "CONNECTED",
                           !.subObjs[id].reconnectAttempts = 0,
                           !.delayLog[id] = <<>>])
  /\ dispatch' = NoDispatch
  /\ UNCHANGED <<handles, live, closures>>
  /\ UNCHANGED <<cacheVars, srcVars, mktVars>>

SocketMessage(s, parses) ==
  /\ s \in SockIds
  /\ ~InTask
  /\ sockets[s].readyState = "OPEN"
  /\ dispatch' = onmessage(subObjs[sockets[s].sub].callbacks, parses, Throwing)
  /\ UNCHANGED <<subscriptions, subObjs, connections, sockets, reconnectTimers,
                 delayLog, handles, live, closures>>
  /\ UNCHANGED <<cacheVars, srcVars, mktVars>>

SocketError(s) ==
  /\ s \in SockIds
  /\ ~InTask
  /\ Alive(sockets[s])
  /\ Install([Mgr EXCEPT !.sockets[s].readyState = "CLOSED",
                         !.subObjs[sockets[s].sub].state = "FAILED"])
  /\ dispatch' = NoDispatch
  /\ UNCHANGED <<handles, live, closures>>
  /\ UNCHANGED <<cacheVars, srcVars, mktVars>>

\* ws.onclose without the test of subscription.callbacks.size
oncloseAlwaysReconnects(m, s) ==
  LET key == m.sockets[s].key
      id == m.sockets[s].sub
      closed == [m EXCEPT !.sockets[s] = DeadSocket,
                          !.subObjs[id].state = "DISCONNECTED",
                          !.connections[key] = NoSock]
  IN scheduleReconnect(closed, key)

\* ws.onclose; the socket object is garbage once its close event is dispatched
onclose(m, s) ==
  LET key == m.sockets[s].key
      id == m.sockets[s].sub
      closed == [m EXCEPT !.sockets[s] = DeadSocket,
                          !.subObjs[id].state = "DISCONNECTED",
                          !.connections[key] = NoSock]
  IN IF Len(closed.subObjs[id].callbacks) > 0
     THEN scheduleReconnect(closed, key)
     ELSE closed

SocketClose(s) ==
  /\ s \in SockIds
  /\ \/ sockets[s].readyState = "CLOSED"
     \/ ~InTask /\ sockets[s].readyState \in {"OPEN", "CLOSING"}
  /\ dispatch' = NoDispatch
  /\ UNCHANGED <<handles, live, closures>>
  /\ UNCHANGED <<cacheVars, srcVars, mktVars>>
  /\ Install(onclose(Mgr, s))

\* the setTimeout callback of scheduleReconnect
TimerFire(key) ==
  /\ ~InTask
  /\ reconnectTimers[key] # NoTimer
  /\ ConnectFits(Mgr, key)
  /\ Install(connect([Mgr EXCEPT !.reconnectTimers[key] = NoTimer], key))
  /\ dispatch' = NoDispatch
  /\ UNCHANGED <<handles, live, closures>>
  /\ UNCHANGED <<cacheVars, srcVars, mktVars>>

destroy(m) ==
  LET registered == {m.connections[k] : k \in Keys} \ {NoSock} IN
  [m EXCEPT !.sockets = [s \in 1..Len(m.sockets) |->
                IF s \in registered /\ m.sockets[s].readyState = "OPEN"
                THEN [m.sockets[s] EXCEPT !.readyState = "CLOSING"]
                ELSE m.sockets[s]],
            !.connections = [k \in Keys |-> NoSock],
            !.subscriptions = [k \in Keys |-> NoSub],
            !.reconnectTimers = [k \in Keys |-> NoTimer]]

DestroyCall ==
  /\ ~InTask
  /\ dispatch' = NoDispatch
  /\ UNCHANGED <<handles, live>>
  /\ UNCHANGED <<cacheVars, srcVars, mktVars>>
  /\ Install(destroy(Mgr))

Destroy ==
  /\ DestroyCall
  /\ UNCHANGED closures

\* destroy(): every closure returned so far belongs to a discarded subscription
DestroyTracked ==
  /\ DestroyCall
  /\ closures' = [stale |-> closures.stale \cup handles, twice |-> {}, left |-> {}]

(* ------------------------------ DataCache ------------------------------ *)
\* position of key in the Map, 0 when the Map has no entry for it
IndexOf(c, key) ==
  IF \E i \in 1..Len(c) : c[i].key = key
  THEN CHOOSE i \in 1..Len(c) : c[i].key = key
  ELSE 0

\* Map.prototype.delete
MapDelete(c, key) == SelectSeq(c, LAMBDA item : item.key # key)

\* Map.prototype.set: an existing key keeps its position, a new key goes last
MapSet(c, item) ==
  IF IndexOf(c, item.key) # 0
  THEN [c EXCEPT ![IndexOf(c, item.key)] = item]
  ELSE Append(c, item)

\* expiry || this.defaultExpiry
OrDefault(expiry, default) == IF expiry = Undefined \/ expiry = 0 THEN default ELSE expiry

\* DataCache.set; given remembers the expiry argument of the call
set(c, key, data, expiry) ==
  LET room == IF Len(c) >= maxSize /\ Len(c) > 0 THEN Tail(c) ELSE c
      cacheItem == [key |-> key, data |-> data, timestamp |-> now,
                    expiry |-> OrDefault(expiry, defaultExpiry), given |-> expiry]
  IN MapSet(room, cacheItem)

Expired(item) == now - item.timestamp > item.expiry

\* the Map holds an entry for key that is not expired
Hit(c, key) == IndexOf(c, key) # 0 /\ ~Expired(c[IndexOf(c, key)])

\* what DataCache.get returns
getResult(c, key) ==
  IF IndexOf(c, key) = 0 THEN "null"
  ELSE IF Expired(c[IndexOf(c, key)]) THEN "null"
  ELSE c[IndexOf(c, key)].data

\* get that leaves a hit where it is in the Map (no delete and re-insert)
getEffectInPlace(c, key) ==
  IF IndexOf(c, key) = 0 THEN c
  ELSE IF Expired(c[IndexOf(c, key)]) THEN MapDelete(c, key)
  ELSE c

\* the Map after DataCache.get
getEffect(c, key) ==
  IF IndexOf(c, key) = 0 THEN c
  ELSE IF Expired(c[IndexOf(c, key)]) THEN MapDelete(c, key)
  ELSE Append(MapDelete(c, key), c[IndexOf(c, key)])

\* what DataCache.has returns
hasResult(c, key) ==
  IF IndexOf(c, key) = 0 THEN "false"
  ELSE IF Expired(c[IndexOf(c, key)]) THEN "false"
  ELSE "true"

\* the Map after DataCache.has
hasEffect(c, key) ==
  IF IndexOf(c, key) # 0 /\ Expired(c[IndexOf(c, key)]) THEN MapDelete(c, key) ELSE c

\* the effect of DataCache.set on the cache, for any caller
setCall(key, data, expiry) ==
  /\ cache' = set(cache, key, data, expiry)
  /\ evicted' = IF Len(cache) >= maxSize /\ Len(cache) > 0 THEN <<cache[1]>> ELSE <<>>
  /\ recency' = LET kept == IF Len(cache) >= maxSize /\ Len(cache) > 0
                            THEN SeqRemove(recency, cache[1].key) ELSE recency
                IN IF key \in SeqToSet(kept) THEN kept ELSE Append(kept, key)
  /\ UNCHANGED <<maxSize, defaultExpiry, now>>

Set(key, data, expiry) ==
  /\ setCall(key, data, expiry)
  /\ ret' = "void"
  /\ UNCHANGED <<mgrVars, srcVars, mktVars>>

\* the effect of DataCache.get on the cache, for any caller
getCall(key) ==
  /\ cache' = getEffect(cache, key)
  /\ recency' = IF Hit(cache, key) THEN Append(SeqRemove(recency, key), key)
                ELSE SeqRemove(recency, key)
  /\ evicted' = <<>>
  /\ UNCHANGED <<maxSize, defaultExpiry, now>>

Get(key) ==
  /\ getCall(key)
  /\ ret' = getResult(cache, key)
  /\ UNCHANGED <<mgrVars, srcVars, mktVars>>

Has(key) ==
  /\ cache' = hasEffect(cache, key)
  /\ ret' = hasResult(cache, key)
  /\ recency' = IF Hit(cache, key) THEN recency ELSE SeqRemove(recency, key)
  /\ evicted' = <<>>
  /\ UNCHANGED <<maxSize, defaultExpiry, now>>
  /\ UNCHANGED <<mgrVars, srcVars, mktVars>>

Delete(key) ==
  /\ cache' = MapDelete(cache, key)
  /\ ret' = IF IndexOf(cache, key) # 0 THEN "true" ELSE "false"
  /\ recency' = SeqRemove(recency, key)
  /\ evicted' = <<>>
  /\ UNCHANGED <<maxSize, defaultExpiry, now>>
  /\ UNCHANGED <<mgrVars, srcVars, mktVars>>

\* the effect of DataCache.clear on the cache, for any caller
clearCall ==
  /\ cache' = <<>>
  /\ recency' = <<>>
  /\ evicted' = <<>>
  /\ UNCHANGED <<maxSize, defaultExpiry, now>>

Clear ==
  /\ clearCall
  /\ ret' = "void"
  /\ UNCHANGED <<mgrVars, srcVars, mktVars>>

SetMaxSize(size) ==
  /\ maxSize' = size
  /\ ret' = "void"
  /\ evicted' = <<>>
  /\ UNCHANGED <<cache, defaultExpiry, now, recency>>
  /\ UNCHANGED <<mgrVars, srcVars, mktVars>>

\* the effect of DataCache.setDefaultExpiry on the cache, for any caller
setDefaultExpiryCall(expiry) ==
  /\ defaultExpiry' = expiry
  /\ evicted' = <<>>
  /\ UNCHANGED <<cache, maxSize, now, recency>>

SetDefaultExpiry(expiry) ==
  /\ setDefaultExpiryCall(expiry)
  /\ ret' = "void"
  /\ UNCHANGED <<mgrVars, srcVars, mktVars>>

\* time passes
Tick ==
  /\ now < MaxTime
  /\ now' = now + 1
  /\ UNCHANGED <<cache, maxSize, defaultExpiry, ret, recency, evicted>>
  /\ UNCHANGED <<mgrVars, srcVars, mktVars>>

CacheInit ==
  /\ cache = <<>>
  /\ maxSize = InitialMaxSize
  /\ defaultExpiry = InitialDefaultExpiry
  /\ now = 0
  /\ ret = "void"
  /\ recency = <<>>
  /\ evicted = <<>>

\* the cache driven on the keys K with the payloads P and the expiry arguments E
NextCacheOn(K, P, E) ==
  \/ \E key \in K, data \in P, expiry \in E : Set(key, data, expiry)
  \/ \E key \in K : Get(key)
  \/ \E key \in K : Has(key)
  \/ \E key \in K : Delete(key)
  \/ Clear
  \/ \E size \in Sizes : SetMaxSize(size)
  \/ \E expiry \in DefaultExpiries : SetDefaultExpiry(expiry)
  \/ Tick

NextCache == NextCacheOn({"a", "b"}, Payloads, Expiries)

(* --------------------------- BinanceDataSource -------------------------- *)
\* the arguments of fetchHistorical
Symbols == {"BTCUSDT", "btcusdt"}
Intervals == {"1m"}
Limits == {100}
\* the options of the constructor ("undefined": the option is omitted)
EnableCacheOptions == {"undefined", "true", "false"}
CacheExpiryOptions == {Undefined, 0, 1}
MAX_RETRIES == 3
RETRY_DELAY == 1000
\* the number NaN
NaN == -1

\* the records of a klines response: arrays of strings, or something else
GoodKline == [isArray |-> TRUE, fields |-> <<"60000", "1", "3", "0", "2", "9">>]
NaNKline == [isArray |-> TRUE, fields |-> <<"60000", "1", "x", "0", "2", "9">>]
ShortKline == [isArray |-> TRUE, fields |-> <<"60000", "1", "3", "0", "2">>]
NotArrayKline == [isArray |-> FALSE, fields |-> <<>>]
Klines == {GoodKline, NaNKline, ShortKline, NotArrayKline}

RECURSIVE SeqsUpTo(_, _)
SeqsUpTo(S, n) ==
  IF n = 0 THEN {<<>>}
  ELSE SeqsUpTo(S, n - 1) \cup {Append(q, x) : q \in {r \in SeqsUpTo(S, n - 1) : Len(r) = n - 1}, x \in S}

\* what fetch(url) and response.json() can give: a rejected fetch, an HTTP error
\* status, a body that is not JSON, a JSON value that is not an array, an array
Responses(n) ==
  {[kind |-> k, items |-> <<>>] : k \in {"reject", "http500", "notJson", "notArray"}}
    \cup {[kind |-> "array", items |-> q] : q \in SeqsUpTo(Klines, n)}

toLowerCase(str) == IF str = "BTCUSDT" THEN "btcusdt" ELSE str

\* `${symbol.toLowerCase()}_${interval}_${limit}`
cacheKeyOfRaw(symbol, interval, limit) ==
  symbol \o "_" \o interval \o "_" \o ToString(limit)

cacheKeyOf(symbol, interval, limit) ==
  toLowerCase(symbol) \o "_" \o interval \o "_" \o ToString(limit)

\* Number(string)
Number(str) ==
  CASE str = "0" -> 0 [] str = "1" -> 1 [] str = "2" -> 2 [] str = "3" -> 3
    [] str = "9" -> 9 [] str = "60000" -> 60000 [] str = "120000" -> 120000
    [] str = "" -> 0 [] OTHER -> NaN

isNaN(n) == n = NaN

\* Math.floor(n / 1000)
FloorDiv1000(n) == IF isNaN(n) THEN NaN ELSE n \div 1000

Thrown(code) == [ok |-> FALSE, code |-> code, value |-> <<>>]

Returned(value) == [ok |-> TRUE, code |-> "", value |-> value]

\* parseKlineData without the validation of the numbers
parseKlineDataUnchecked(kline) ==
  IF ~kline.isArray \/ Len(kline.fields) < 6 THEN Thrown("PARSE_ERROR")
  ELSE Returned([time |-> FloorDiv1000(Number(kline.fields[1])),
                 open |-> Number(kline.fields[2]), high |-> Number(kline.fields[3]),
                 low |-> Number(kline.fields[4]), close |-> Number(kline.fields[5])])

parseKlineData(kline) ==
  IF ~kline.isArray \/ Len(kline.fields) < 6 THEN Thrown("PARSE_ERROR")
  ELSE LET time == FloorDiv1000(Number(kline.fields[1]))
           openPrice == Number(kline.fields[2])
           highPrice == Number(kline.fields[3])
           lowPrice == Number(kline.fields[4])
           closePrice == Number(kline.fields[5])
       IN IF isNaN(time) \/ isNaN(openPrice) \/ isNaN(highPrice) \/ isNaN(lowPrice)
               \/ isNaN(closePrice)
          THEN Thrown("PARSE_ERROR")
          ELSE Returned([time |-> time, open |-> openPrice, high |-> highPrice,
                         low |-> lowPrice, close |-> closePrice])

\* data.map(parseKlineData): the first record that throws ends the map
fetchHistoricalInternal(response) ==
  CASE response.kind = "reject" -> Thrown("TypeError")
    [] response.kind = "http500" -> Thrown("HTTP_ERROR")
    [] response.kind = "notJson" -> Thrown("SyntaxError")
    [] response.kind = "notArray" -> Thrown("INVALID_FORMAT")
    [] OTHER ->
         LET parsed == [i \in 1..Len(response.items) |-> parseKlineData(response.items[i])]
         IN IF \E i \in 1..Len(parsed) : ~parsed[i].ok
            THEN parsed[CHOOSE i \in 1..Len(parsed) :
                          ~parsed[i].ok /\ \A j \in 1..(i - 1) : parsed[j].ok]
            ELSE Returned([i \in 1..Len(parsed) |-> parsed[i].value])

\* the candle of GoodKline
GoodCandle == [time |-> 60, open |-> 1, high |-> 3, low |-> 0, close |-> 2]

\* this.RETRY_DELAY, whatever the attempt
retryDelayFlat(attempt) == RETRY_DELAY

\* this.RETRY_DELAY * attempt
retryDelay(attempt) == RETRY_DELAY * attempt

NoSource == [constructed |-> FALSE, enableCache |-> FALSE, cacheExpiry |-> 0]

NoError == [code |-> "", cause |-> ""]

NoFetch == [pc |-> "idle", symbol |-> "", cacheKey |-> "", attempt |-> 0, requests |-> 0, waits |-> <<>>,
            lastError |-> "", result |-> <<>>, error |-> NoError]

\* new BinanceDataSource(options)
NewDataSource(enableCache, cacheExpiry) ==
  /\ ~source.constructed
  /\ LET expiry == IF cacheExpiry = Undefined THEN InitialDefaultExpiry ELSE cacheExpiry
     IN /\ source' = [constructed |-> TRUE,
                      enableCache |-> IF enableCache = "undefined" THEN TRUE
                                      ELSE enableCache = "true",
                      cacheExpiry |-> expiry]
        /\ IF expiry # 0
           THEN setDefaultExpiryCall(expiry)
           ELSE UNCHANGED cacheVars
  /\ UNCHANGED <<fetch, second, ret, mgrVars, mktVars, rtVars>>

\* if (this.enableCache) { cached = this.cache.get(cacheKey); if (cached) ... }:
\* the stored values are arrays, which are truthy, and a miss is null
cachedFirst(enableCache, c, cacheKey) == enableCache /\ Hit(c, cacheKey)

\* fetchHistorical up to its first await: the cache check
FetchHistorical(symbol, interval, limit) ==
  /\ source.constructed
  /\ fetch.pc \in {"idle", "returned", "thrown"}
  /\ LET cacheKey == cacheKeyOf(symbol, interval, limit) IN
     /\ fetch' = IF cachedFirst(source.enableCache, cache, cacheKey)
                 THEN [NoFetch EXCEPT !.pc = "returned", !.symbol = symbol,
                                      !.cacheKey = cacheKey,
                                      !.result = getResult(cache, cacheKey)]
                 ELSE [NoFetch EXCEPT !.pc = "fetching", !.symbol = symbol,
                                      !.cacheKey = cacheKey, !.attempt = 1]
     /\ IF source.enableCache THEN getCall(cacheKey) ELSE UNCHANGED cacheVars
  /\ UNCHANGED <<source, second, ret, mgrVars, mktVars, rtVars>>

\* the success path without this.cache.set
storesResultNever(enableCache) == FALSE

\* if (this.enableCache) { this.cache.set(cacheKey, data, this.cacheExpiry) }
storesResult(enableCache) == enableCache

\* one attempt of the retry loop: fetchHistoricalInternal settles
FetchSettles(response) ==
  /\ fetch.pc = "fetching"
  /\ LET data == fetchHistoricalInternal(response) IN
     IF data.ok
     THEN /\ fetch' = [fetch EXCEPT !.pc = "returned", !.requests = @ + 1,
                                    !.result = data.value]
          /\ IF storesResult(source.enableCache)
             THEN setCall(fetch.cacheKey, data.value, source.cacheExpiry)
             ELSE UNCHANGED cacheVars
     ELSE /\ fetch' = IF fetch.attempt < MAX_RETRIES
                      THEN [fetch EXCEPT !.pc = "waiting", !.requests = @ + 1,
                                         !.lastError = data.code,
                                         !.waits = Append(@, retryDelay(fetch.attempt))]
                      ELSE [fetch EXCEPT !.pc = "thrown", !.requests = @ + 1,
                                         !.lastError = data.code,
                                         !.error = [code |-> "FETCH_FAILED", cause |-> data.code]]
          /\ UNCHANGED cacheVars
  /\ UNCHANGED <<source, second, ret, mgrVars, mktVars, rtVars>>

\* the timer of this.delay fires: the loop goes to the next attempt
DelayDone ==
  /\ fetch.pc = "waiting"
  /\ fetch' = [fetch EXCEPT !.pc = "fetching", !.attempt = @ + 1]
  /\ UNCHANGED <<source, second, mgrVars, mktVars, cacheVars, rtVars>>

\* a second fetchHistorical call on the same instance; during and fresh record
\* where the first call was, and whether the cache held an unexpired entry of
\* the key, when the second call began
NoSecond == [pc |-> "idle", symbol |-> "", cacheKey |-> "", attempt |-> 0, requests |-> 0,
             waits |-> <<>>, lastError |-> "", result |-> <<>>, error |-> NoError,
             during |-> "idle", fresh |-> FALSE]

\* the second call of fetchHistorical up to its first await: the cache check
SecondFetchHistorical(symbol, interval, limit) ==
  /\ source.constructed
  /\ fetch.pc # "idle"
  /\ second.pc = "idle"
  /\ LET cacheKey == cacheKeyOf(symbol, interval, limit)
         started == [NoSecond EXCEPT
                       !.symbol = symbol, !.cacheKey = cacheKey,
                       !.during = fetch.pc,
                       !.fresh = \E i \in 1..Len(cache) :
                                   /\ cache[i].key = cacheKey
                                   /\ now - cache[i].timestamp <= cache[i].expiry]
     IN
     /\ second' = IF cachedFirst(source.enableCache, cache, cacheKey)
                  THEN [started EXCEPT !.pc = "returned",
                                       !.result = getResult(cache, cacheKey)]
                  ELSE [started EXCEPT !.pc = "fetching", !.attempt = 1]
     /\ IF source.enableCache THEN getCall(cacheKey) ELSE UNCHANGED cacheVars
  /\ UNCHANGED <<source, fetch, ret, mgrVars, mktVars, rtVars>>

\* one attempt of the second call's retry loop: fetchHistoricalInternal settles
SecondFetchSettles(response) ==
  /\ second.pc = "fetching"
  /\ LET data == fetchHistoricalInternal(response) IN
     IF data.ok
     THEN /\ second' = [second EXCEPT !.pc = "returned", !.requests = @ + 1,
                                      !.result = data.value]
          /\ IF storesResult(source.enableCache)
             THEN setCall(second.cacheKey, data.value, source.cacheExpiry)
             ELSE UNCHANGED cacheVars
     ELSE /\ second' = IF second.attempt < MAX_RETRIES
                       THEN [second EXCEPT !.pc = "waiting", !.requests = @ + 1,
                                           !.lastError = data.code,
                                           !.waits = Append(@, retryDelay(second.attempt))]
                       ELSE [second EXCEPT !.pc = "thrown", !.requests = @ + 1,
                                           !.lastError = data.code,
                                           !.error = [code |-> "FETCH_FAILED", cause |-> data.code]]
          /\ UNCHANGED cacheVars
  /\ UNCHANGED <<source, fetch, ret, mgrVars, mktVars, rtVars>>

\* the timer of the second call's this.delay fires
SecondDelayDone ==
  /\ second.pc = "waiting"
  /\ second' = [second EXCEPT !.pc = "fetching", !.attempt = @ + 1]
  /\ UNCHANGED <<source, fetch, mgrVars, mktVars, cacheVars, rtVars>>


\* BinanceDataSource.destroy
SourceDestroy ==
  /\ source.constructed
  /\ IF source.enableCache THEN clearCall ELSE UNCHANGED cacheVars
  /\ UNCHANGED <<srcVars, ret, mgrVars, mktVars>>

(* ------------------------ real-time kline stream ----------------------- *)
\* kline stream messages: message.k and its members t, o, h, l, c
GoodMsg == [hasK |-> TRUE, t |-> "60000", o |-> "1", h |-> "3", l |-> "0", c |-> "2"]
UpdateMsg == [hasK |-> TRUE, t |-> "60000", o |-> "1", h |-> "3", l |-> "0", c |-> "3"]
NaNPriceMsg == [hasK |-> TRUE, t |-> "60000", o |-> "x", h |-> "3", l |-> "0", c |-> "2"]
NaNTimeMsg == [hasK |-> TRUE, t |-> "x", o |-> "1", h |-> "3", l |-> "0", c |-> "2"]
NoKMsg == [hasK |-> FALSE, t |-> "", o |-> "", h |-> "", l |-> "", c |-> ""]
ValidMsgs == {GoodMsg, UpdateMsg}
\* the kline that opens next, and one that opened before
LaterMsg == [hasK |-> TRUE, t |-> "120000", o |-> "2", h |-> "3", l |-> "2", c |-> "3"]
EarlierMsg == [hasK |-> TRUE, t |-> "0", o |-> "1", h |-> "1", l |-> "1", c |-> "1"]
Messages == ValidMsgs \cup {NaNPriceMsg, NaNTimeMsg, NoKMsg}

\* parseFloat(string)
parseFloat(str) == IF str = "" THEN NaN ELSE Number(str)

\* the CandlestickData both message handlers build from message.k
toCandle(kline) ==
  [time |-> FloorDiv1000(Number(kline.t)), open |-> parseFloat(kline.o),
   high |-> parseFloat(kline.h), low |-> parseFloat(kline.l), close |-> parseFloat(kline.c)]

NoRaf == 0

\* latestData and rafId of the closure, the number of animation-frame callbacks
\* the browser holds for it, what the frame that ran last gave the callback, and
\* the candle of the last valid message received since the callback was invoked
NoStream == [active |-> FALSE, callback |-> "", latestData |-> <<>>, rafId |-> NoRaf,
             scheduled |-> 0, emitted |-> <<>>, lastValid |-> <<>>, threw |-> FALSE]

\* BinanceDataSource.subscribe
StreamSubscribe(callback) ==
  /\ ~stream.active
  /\ stream' = [NoStream EXCEPT !.active = TRUE, !.callback = callback]
  /\ UNCHANGED <<source, fetch, second, hook, mgrVars, mktVars, cacheVars>>

\* the message handler BinanceDataSource.subscribe gives to the manager
streamOnMessage(st, message) ==
  IF ~message.hasK THEN st
  ELSE LET data == toCandle(message) IN
    IF isNaN(data.time) \/ isNaN(data.open) \/ isNaN(data.high) \/ isNaN(data.low)
         \/ isNaN(data.close)
    THEN st
    ELSE IF st.rafId = NoRaf
         THEN [st EXCEPT !.latestData = <<data>>, !.rafId = 1, !.scheduled = @ + 1]
         ELSE [st EXCEPT !.latestData = <<data>>]

\* the manager delivers a parsed message to the handler
StreamMessage(message) ==
  /\ stream.active
  /\ stream' = [streamOnMessage(stream, message) EXCEPT
                  !.emitted = <<>>,
                  !.lastValid = IF message \in ValidMsgs THEN <<toCandle(message)>> ELSE @]
  /\ UNCHANGED <<source, fetch, second, hook, mgrVars, mktVars, cacheVars>>

\* emitLatest: an exception of the callback leaves latestData and rafId as they are
emitLatest(st) ==
  IF st.latestData # <<>>
  THEN IF st.callback \in Throwing
       THEN [st EXCEPT !.emitted = Append(@, st.latestData[1]), !.threw = TRUE]
       ELSE [st EXCEPT !.emitted = Append(@, st.latestData[1]), !.latestData = <<>>,
                       !.rafId = NoRaf]
  ELSE [st EXCEPT !.rafId = NoRaf]

RECURSIVE runFrameCallbacks(_, _)
runFrameCallbacks(st, n) == IF n = 0 THEN st ELSE runFrameCallbacks(emitLatest(st), n - 1)

\* the browser renders a frame: it runs the animation-frame callbacks it holds
Frame ==
  /\ stream.scheduled > 0
  /\ LET ran == runFrameCallbacks([stream EXCEPT !.emitted = <<>>, !.scheduled = 0],
                                   stream.scheduled)
     IN stream' = [ran EXCEPT !.lastValid = IF ran.emitted # <<>> THEN <<>> ELSE @]
  /\ UNCHANGED <<source, fetch, second, hook, mgrVars, mktVars, cacheVars>>

\* the function BinanceDataSource.subscribe returns
StreamUnsubscribe ==
  /\ stream.active
  /\ stream' = [stream EXCEPT !.active = FALSE, !.emitted = <<>>, !.lastValid = <<>>,
                              !.scheduled = IF stream.rafId # NoRaf THEN 0 ELSE @,
                              !.rafId = NoRaf]
  /\ UNCHANGED <<source, fetch, second, hook, mgrVars, mktVars, cacheVars>>

\* the query data ['kline', symbol, interval, 100]: undefined, or an array
NoSeries == [defined |-> FALSE, candles |-> <<>>]

NoHook == [mounted |-> FALSE, onUpdate |-> "", latestDataRef |-> <<>>, updated |-> <<>>,
           series |-> NoSeries]

\* useKlineSubscription: the effect runs
HookMount(onUpdate) ==
  /\ ~hook.mounted
  /\ hook' = [hook EXCEPT !.mounted = TRUE, !.onUpdate = onUpdate, !.updated = <<>>]
  /\ UNCHANGED <<source, fetch, second, stream, mgrVars, mktVars, cacheVars>>

\* the historical query settles and fills the query data
QueryLoaded(candles) ==
  /\ ~hook.series.defined
  /\ hook' = [hook EXCEPT !.series = [defined |-> TRUE, candles |-> candles], !.updated = <<>>]
  /\ UNCHANGED <<source, fetch, second, stream, mgrVars, mktVars, cacheVars>>

\* an updater that appends the candle whatever its open time
mergeCandleAppends(oldData, data) ==
  IF ~oldData.defined THEN oldData
  ELSE [oldData EXCEPT !.candles = Append(@, data)]

\* the updater given to queryClient.setQueryData
mergeCandle(oldData, data) ==
  IF ~oldData.defined THEN oldData
  ELSE IF Len(oldData.candles) > 0 /\ data.time # NaN
            /\ oldData.candles[Len(oldData.candles)].time = data.time
       THEN [oldData EXCEPT !.candles = Append(SubSeq(@, 1, Len(@) - 1), data)]
       ELSE [oldData EXCEPT !.candles = Append(@, data)]

\* the message handler of useKlineSubscription; an exception of onUpdate is
\* caught after latestDataRef was written and before the query data is updated
hookOnMessage(h, message) ==
  IF ~message.hasK THEN h
  ELSE LET data == toCandle(message) IN
    IF h.onUpdate \in Throwing
    THEN [h EXCEPT !.latestDataRef = <<data>>, !.updated = <<data>>]
    ELSE [h EXCEPT !.latestDataRef = <<data>>, !.updated = <<data>>,
                   !.series = mergeCandle(@, data)]

HookMessage(message) ==
  /\ hook.mounted
  /\ Len(hookOnMessage(hook, message).series.candles) <= MaxCandles
  /\ hook' = hookOnMessage([hook EXCEPT !.updated = <<>>], message)
  /\ UNCHANGED <<source, fetch, second, stream, mgrVars, mktVars, cacheVars>>

\* the cleanup of the effect
HookUnmount ==
  /\ hook.mounted
  /\ hook' = [hook EXCEPT !.mounted = FALSE, !.updated = <<>>]
  /\ UNCHANGED <<source, fetch, second, stream, mgrVars, mktVars, cacheVars>>

SourceInit ==
  /\ source = NoSource
  /\ fetch = NoFetch
  /\ second = NoSecond
  /\ stream = NoStream
  /\ hook = NoHook

(* --------------------------- order book store --------------------------- *)
\* the decimal strings of the depth stream: "0" .. "102", and the zero quantity
DecimalTable == [n \in 0..102 |-> ToString(n)]

\* new Decimal(string) as a number; NaN: the constructor throws
Decimal(str) ==
  IF str = "0.00000000" THEN 0
  ELSE IF \E n \in DOMAIN DecimalTable : DecimalTable[n] = str
       THEN CHOOSE n \in DOMAIN DecimalTable : DecimalTable[n] = str
       ELSE NaN

\* the entries of a depth update, [price, quantity]
Bid102 == <<"102", "5">>
Bid1 == <<"1", "5">>
Set101 == <<"101", "5">>
Zero101 == <<"101", "0.00000000">>
BadPrice == <<"abc", "5">>
BadQuantity == <<"101", "x">>

\* a depth update with its members b and a; NoSides is a message without them
NoSides == [sides |-> FALSE, b |-> <<>>, a |-> <<>>]

DepthUpdate(b, a) == [sides |-> TRUE, b |-> b, a |-> a]

Batches ==
  {DepthUpdate(<<Bid102>>, <<Bid1>>), DepthUpdate(<<Bid1>>, <<Bid102>>),
   DepthUpdate(<<Zero101>>, <<Zero101>>), DepthUpdate(<<Set101>>, <<Set101>>),
   DepthUpdate(<<Bid102, Zero101>>, <<>>), DepthUpdate(<<>>, <<Bid1, Zero101>>),
   DepthUpdate(<<BadQuantity>>, <<Bid1>>), DepthUpdate(<<Bid102>>, <<BadPrice>>),
   DepthUpdate(<<BadPrice>>, <<>>), NoSides}

\* position of price in the level Map, 0 when the Map has no entry for it
LevelIndex(levelMap, price) ==
  IF \E i \in 1..Len(levelMap) : levelMap[i].price = price
  THEN CHOOSE i \in 1..Len(levelMap) : levelMap[i].price = price
  ELSE 0

\* the zero test as a comparison of strings
isZeroLiteral(quantity) == quantity = "0"

\* new Decimal(quantity).isZero()
isZero(quantity) == Decimal(quantity) = 0

\* updates.forEach: delete the price of a zero quantity, set the others
RECURSIVE applyUpdates(_, _)
applyUpdates(levelMap, updates) ==
  IF updates = <<>> THEN levelMap
  ELSE LET price == Head(updates)[1]
           quantity == Head(updates)[2]
           i == LevelIndex(levelMap, price)
       IN applyUpdates(
            IF isZero(quantity)
            THEN SelectSeq(levelMap, LAMBDA level : level.price # price)
            ELSE IF i # 0 THEN [levelMap EXCEPT ![i].quantity = quantity]
                 ELSE Append(levelMap, [price |-> price, quantity |-> quantity]),
            Tail(updates))

\* the comparator without the side: ascending for bids and asks
byPriceAscending(priceA, priceB, isBid) == priceA - priceB

\* isBid ? priceB.minus(priceA).toNumber() : priceA.minus(priceB).toNumber()
byPrice(priceA, priceB, isBid) == IF isBid THEN priceB - priceA ELSE priceA - priceB

\* Array.prototype.sort with the comparator (a stable sort)
sort(levels, isBid) ==
  LET n == Len(levels)
      num == [i \in 1..n |-> Decimal(levels[i].price)] \o <<>>
      before(j, i) == \/ byPrice(num[j], num[i], isBid) < 0
                      \/ byPrice(num[j], num[i], isBid) = 0 /\ j < i
      rank == [i \in 1..n |-> Cardinality({j \in 1..n : before(j, i)})] \o <<>>
  IN [k \in 1..n |-> levels[CHOOSE i \in 1..n : rank[i] = k - 1]] \o <<>>

\* updateLevels: new Decimal throws for a quantity it cannot parse, and for a
\* price it cannot parse as soon as the comparator is called (two levels or more)
updateLevels(existingLevels, updates, isBid) ==
  IF \E i \in 1..Len(updates) : Decimal(updates[i][2]) = NaN THEN Thrown("DecimalError")
  ELSE LET levelMap == applyUpdates(existingLevels, updates) IN
    IF Len(levelMap) >= 2 /\ \E i \in 1..Len(levelMap) : Decimal(levelMap[i].price) = NaN
    THEN Thrown("DecimalError")
    ELSE LET levels == sort(levelMap, isBid)
         IN Returned(SubSeq(levels, 1, Min(Len(levels), 100)))

EmptyBook == [bids |-> <<>>, asks |-> <<>>]

\* a book after a snapshot of a hundred levels a side, prices "2" .. "101"
FullBook ==
  [bids |-> [i \in 1..100 |-> [price |-> ToString(102 - i), quantity |-> "7"]],
   asks |-> [i \in 1..100 |-> [price |-> ToString(i + 1), quantity |-> "7"]]]

\* the updater updateOrderBook gives to set; an exception leaves the store as it is
updateOrderBook(state, data) ==
  IF ~data.sides THEN state
  ELSE LET bids == updateLevels(state.bids, data.b, TRUE) IN
    IF ~bids.ok THEN state
    ELSE LET asks == updateLevels(state.asks, data.a, FALSE) IN
      IF ~asks.ok THEN state
      ELSE [bids |-> bids.value, asks |-> asks.value]

\* the effect of useOrderBookStore's updateOrderBook, for any caller
updateOrderBookCall(data) ==
  /\ applied' = <<data>>
  /\ orderBook' = updateOrderBook(orderBook, data)

UpdateOrderBook(data) ==
  /\ updateOrderBookCall(data)
  /\ UNCHANGED <<depth, tradeStore, added, mgrVars, cacheVars, srcVars>>

\* the effect of useOrderBookStore's reset, for any caller
resetCall ==
  /\ applied' = <<>>
  /\ orderBook' = EmptyBook

BookReset ==
  /\ resetCall
  /\ UNCHANGED <<depth, tradeStore, added, mgrVars, cacheVars, srcVars>>

(* ------------------------- useBinanceOrderBook -------------------------- *)
DepthSymbols == {"btcusdt", "ethusdt"}

\* what the depth stream of a symbol sends: text that is not JSON, or an update
\* of levels at the prices of that symbol
NotJson == [json |-> FALSE, data |-> NoSides]

Json(data) == [json |-> TRUE, data |-> data]

FeedPrices(symbol) == IF symbol = "btcusdt" THEN {"101", "102"} ELSE {"1", "2"}

DepthMessages(symbol) ==
  {NotJson}
    \cup {Json(DepthUpdate(<<<<p, "5">>>>, <<>>)) : p \in FeedPrices(symbol)}
    \cup {Json(DepthUpdate(<<>>, <<<<p, q>>>>)) : p \in FeedPrices(symbol),
                                                   q \in {"5", "0.00000000"}}

\* no effect has run, or the last one was cleaned up on unmount
NoDepth == [symbol |-> "", sockets |-> <<>>]

\* the cleanup of the effect: it closes its socket only if the socket is open
depthCleanup(socks) ==
  [i \in 1..Len(socks) |->
     IF socks[i].current
     THEN [socks[i] EXCEPT !.current = FALSE,
                             !.readyState = IF @ = "OPEN" THEN "CLOSING" ELSE @]
     ELSE socks[i]]

\* the effect runs for symbol, on mount or after the symbol changed: the cleanup
\* of the previous effect, then reset() and new WebSocket(wsUrl)
DepthEffect(symbol) ==
  /\ symbol # depth.symbol
  /\ Len(depth.sockets) < MaxDepthSockets
  /\ depth' = [symbol |-> symbol,
               sockets |-> Append(depthCleanup(depth.sockets),
                                  [symbol |-> symbol, readyState |-> "CONNECTING",
                                   current |-> TRUE])]
  /\ resetCall
  /\ UNCHANGED <<tradeStore, added, mgrVars, cacheVars, srcVars>>

\* the component unmounts: the cleanup of the last effect
DepthUnmount ==
  /\ depth.symbol # ""
  /\ depth' = [symbol |-> "", sockets |-> depthCleanup(depth.sockets)]
  /\ UNCHANGED <<orderBook, applied, tradeStore, added, mgrVars, cacheVars, srcVars>>

DepthSocketOpen(i) ==
  /\ i \in 1..Len(depth.sockets)
  /\ depth.sockets[i].readyState = "CONNECTING"
  /\ depth' = [depth EXCEPT !.sockets[i].readyState = "OPEN"]
  /\ UNCHANGED <<orderBook, applied, tradeStore, added, mgrVars, cacheVars, srcVars>>

\* ws.onmessage: JSON.parse and updateOrderBook inside try / catch
DepthSocketMessage(i, message) ==
  /\ i \in 1..Len(depth.sockets)
  /\ depth.sockets[i].readyState = "OPEN"
  /\ message \in DepthMessages(depth.sockets[i].symbol)
  /\ IF message.json THEN updateOrderBookCall(message.data)
     ELSE UNCHANGED <<orderBook, applied>>
  /\ UNCHANGED <<depth, tradeStore, added, mgrVars, cacheVars, srcVars>>

\* the close event of a socket: the connection failed, the server closed it or
\* the closing handshake ended; the socket object is garbage from then on
DepthSocketClose(i) ==
  /\ i \in 1..Len(depth.sockets)
  /\ depth' = [depth EXCEPT !.sockets = SubSeq(@, 1, i - 1) \o SubSeq(@, i + 1, Len(@))]
  /\ UNCHANGED <<orderBook, applied, tradeStore, added, mgrVars, cacheVars, srcVars>>

(* ------------------------------ trade store ----------------------------- *)
\* the prices and sides of the trade events
TradePrices == {"1", "2", "3"}

\* a trade event: t trade id, p price, q quantity, T trade time, m buyer is maker
TradeData(id, price, isBuyerMaker) ==
  [t |-> id, p |-> price, q |-> "1", T |-> id, m |-> isBuyerMaker]

NoTrades == [trades |-> <<>>, lastPrice |-> "0", priceChange |-> 0]

newTrade(data) ==
  [id |-> data.t, price |-> data.p, quantity |-> data.q, time |-> data.T,
   isBuyerMaker |-> data.m]

\* the direction of the price against state.lastPrice
priceChangeOf(lastPrice, price) ==
  IF lastPrice # "0"
  THEN LET lastPriceNum == parseFloat(lastPrice)
           currentPriceNum == parseFloat(price)
       IN IF isNaN(lastPriceNum) \/ isNaN(currentPriceNum) THEN 0
          ELSE IF currentPriceNum > lastPriceNum THEN 1
          ELSE IF currentPriceNum < lastPriceNum THEN -1
          ELSE 0
  ELSE 0

\* addTrade that puts the new trade last and keeps the first fifty
addTradeOldestFirst(state, data) ==
  LET trades == Append(state.trades, newTrade(data))
  IN [trades |-> SubSeq(trades, 1, Min(Len(trades), 50)),
      lastPrice |-> data.p,
      priceChange |-> priceChangeOf(state.lastPrice, data.p)]

\* the updater addTrade gives to set
addTrade(state, data) ==
  LET trades == <<newTrade(data)>> \o state.trades
  IN [trades |-> SubSeq(trades, 1, Min(Len(trades), 50)),
      lastPrice |-> data.p,
      priceChange |-> priceChangeOf(state.lastPrice, data.p)]

\* the store after n trades at the price "1", ids n down to 1
TradesAfter(n) ==
  [i \in 1..n |-> newTrade(TradeData(n + 1 - i, "1", FALSE))]

\* addTrade is followed for the first MaxAdds calls after a reset and for
\* MaxAdds calls from one trade below the limit of fifty
AddTrade(price, isBuyerMaker) ==
  /\ \/ Len(added) < MaxAdds
     \/ Len(added) >= 49 /\ Len(added) < 49 + MaxAdds
  /\ LET data == TradeData(Len(added) + 1, price, isBuyerMaker) IN
     /\ tradeStore' = addTrade(tradeStore, data)
     /\ added' = <<newTrade(data)>> \o added
  /\ UNCHANGED <<bookVars, mgrVars, cacheVars, srcVars>>

TradeReset ==
  /\ tradeStore' = NoTrades
  /\ added' = <<>>
  /\ UNCHANGED <<bookVars, mgrVars, cacheVars, srcVars>>

MarketInit ==
  /\ orderBook = EmptyBook
  /\ applied = <<>>
  /\ depth = NoDepth
  /\ tradeStore = NoTrades
  /\ added = <<>>

(* --------------------------- specification ----------------------------- *)
MgrInit ==
  /\ subscriptions = [k \in Keys |-> NoSub]
  /\ subObjs = <<>>
  /\ connections = [k \in Keys |-> NoSock]
  /\ sockets = <<>>
  /\ reconnectTimers = [k \in Keys |-> NoTimer]
  /\ delayLog = <<>>
  /\ handles = {}
  /\ live = {}
  /\ closures = [stale |-> {}, twice |-> {}, left |-> {}]
  /\ dispatch = NoDispatch

Init == MgrInit /\ CacheInit /\ SourceInit /\ MarketInit

\* the manager driven on the keys K with the callbacks C and the URLs U
NextMgr(K, C, U) ==
  \/ \E key \in K, url \in U, callback \in C, max \in AttemptLimits :
        Subscribe(key, url, callback, max)
  \/ \E key \in K, callback \in C : Unsubscribe(key, callback)
  \/ \E s \in 1..MaxSockets : SocketOpen(s)
  \/ \E s \in 1..MaxSockets, parses \in BOOLEAN : SocketMessage(s, parses)
  \/ \E s \in 1..MaxSockets : SocketError(s)
  \/ \E s \in 1..MaxSockets : SocketClose(s)
  \/ \E key \in K : TimerFire(key)
  \/ Destroy

\* one stream, two listeners, a URL the WebSocket constructor accepts
Next == NextMgr({"k1"}, Callbacks, {"wss://a"})

Spec == Init /\ [][Next]_vars

\* maxReconnectAttempts of a subscription that gives up after one reconnect
FewAttempts == {1}

\* one stream, two listeners, with the unsubscribe closures told apart; sockets
\* open and close, no message is delivered, and one reconnect is allowed
NextClosures ==
  \/ \E key \in {"k1"}, url \in {"wss://a"}, callback \in Callbacks, max \in FewAttempts :
        SubscribeTracked(key, url, callback, max)
  \/ \E key \in {"k1"}, callback \in Callbacks : UnsubscribeTracked(key, callback)
  \/ \E s \in 1..MaxSockets : SocketOpen(s)
  \/ \E s \in 1..MaxSockets : SocketClose(s)
  \/ \E key \in {"k1"} : TimerFire(key)
  \/ DestroyTracked

SpecClosures == Init /\ [][NextClosures]_vars

\* one stream, one listener, also with a URL the WebSocket constructor rejects
NextRetry == NextMgr({"k1"}, {"f"}, Urls)

SpecRetry == Init /\ [][NextRetry]_vars

SpecCache == Init /\ [][NextCache]_vars

\* the cache on three keys, one payload, entries that expire after one time unit
NextLru == NextCacheOn(CacheKeys, {"v1"}, {1})

SpecLru == Init /\ [][NextLru]_vars

\* historical fetches of one data source, while time passes
NextFetch ==
  \/ \E enableCache \in EnableCacheOptions, cacheExpiry \in CacheExpiryOptions :
        NewDataSource(enableCache, cacheExpiry)
  \/ \E symbol \in Symbols, interval \in Intervals, limit \in Limits :
        FetchHistorical(symbol, interval, limit)
  \/ \E response \in Responses(MaxRecords) : FetchSettles(response)
  \/ DelayDone
  \/ SourceDestroy
  \/ Tick

SpecFetch == Init /\ [][NextFetch]_vars

\* the consumers of one kline stream: a BinanceDataSource subscription and a
\* mounted useKlineSubscription
NextStream ==
  \/ \E callback \in Callbacks : StreamSubscribe(callback)
  \/ \E message \in Messages : StreamMessage(message)
  \/ Frame
  \/ StreamUnsubscribe
  \/ \E onUpdate \in Callbacks : HookMount(onUpdate)
  \/ \E candles \in SeqsUpTo({GoodCandle}, 1) : QueryLoaded(candles)
  \/ \E message \in Messages : HookMessage(message)
  \/ HookUnmount

SpecStream == Init /\ [][NextStream]_vars

\* one data source and another client of the shared cache, which stores the
\* candles of another symbol
OtherClientKeys == {"ethusdt_1m_100"}

NextShared ==
  \/ \E enableCache \in EnableCacheOptions, cacheExpiry \in CacheExpiryOptions :
        NewDataSource(enableCache, cacheExpiry)
  \/ \E symbol \in Symbols, interval \in Intervals, limit \in Limits :
        FetchHistorical(symbol, interval, limit)
  \/ \E response \in Responses(1) : FetchSettles(response)
  \/ DelayDone
  \/ SourceDestroy
  \/ \E key \in OtherClientKeys : Set(key, <<GoodCandle>>, Undefined)

SpecShared == Init /\ [][NextShared]_vars

\* two fetchHistorical calls of one data source with the cache enabled: the
\* second begins once the first has, while time passes
NextTwoCalls ==
  \/ \E cacheExpiry \in CacheExpiryOptions : NewDataSource("true", cacheExpiry)
  \/ \E symbol \in Symbols, interval \in Intervals, limit \in Limits :
        second.pc = "idle" /\ FetchHistorical(symbol, interval, limit)
  \/ \E response \in Responses(1) : FetchSettles(response)
  \/ DelayDone
  \/ \E symbol \in Symbols, interval \in Intervals, limit \in Limits :
        SecondFetchHistorical(symbol, interval, limit)
  \/ \E response \in Responses(1) : SecondFetchSettles(response)
  \/ SecondDelayDone
  \/ Tick

SpecTwoCalls == Init /\ [][NextTwoCalls]_vars


\* the order book store alone, from an empty book and from a full one
InitBook ==
  /\ MgrInit /\ CacheInit /\ SourceInit
  /\ orderBook \in {EmptyBook, FullBook}
  /\ applied = <<>>
  /\ depth = NoDepth
  /\ tradeStore = NoTrades
  /\ added = <<>>

NextBook ==
  \/ \E data \in Batches : UpdateOrderBook(data)
  \/ BookReset

SpecBook == InitBook /\ [][NextBook]_vars

\* a mounted useBinanceOrderBook whose symbol changes, and its sockets
NextDepth ==
  \/ \E symbol \in DepthSymbols : DepthEffect(symbol)
  \/ DepthUnmount
  \/ \E i \in 1..MaxDepthSockets : DepthSocketOpen(i)
  \/ \E i \in 1..MaxDepthSockets, symbol \in DepthSymbols :
        \E message \in DepthMessages(symbol) : DepthSocketMessage(i, message)
  \/ \E i \in 1..MaxDepthSockets : DepthSocketClose(i)

SpecDepth == Init /\ [][NextDepth]_vars

\* the candles of the messages
EarlyCandle == toCandle(EarlierMsg)
LateCandle == toCandle(LaterMsg)

\* a mounted useKlineSubscription given well-formed klines of any open time
NextMerge ==
  \/ \E onUpdate \in Callbacks : HookMount(onUpdate)
  \/ \E candles \in {<<>>, <<GoodCandle>>, <<EarlyCandle, GoodCandle>>} : QueryLoaded(candles)
  \/ \E message \in ValidMsgs \cup {LaterMsg, EarlierMsg} : HookMessage(message)
  \/ HookUnmount

SpecMerge == Init /\ [][NextMerge]_vars

\* the trade store, from the empty list and from one trade below the limit
InitTrades ==
  /\ MgrInit /\ CacheInit /\ SourceInit
  /\ orderBook = EmptyBook
  /\ applied = <<>>
  /\ depth = NoDepth
  /\ added \in {<<>>, TradesAfter(49)}
  /\ tradeStore = IF added = <<>> THEN NoTrades
                  ELSE [trades |-> added, lastPrice |-> "1", priceChange |-> 0]

NextTrades ==
  \/ \E price \in TradePrices, isBuyerMaker \in BOOLEAN : AddTrade(price, isBuyerMaker)
  \/ TradeReset

SpecTrades == InitTrades /\ [][NextTrades]_vars

\* two streams of one URL, one listener
NextKeys == NextMgr(Keys, {"f"}, {"wss://a"})

SpecKeys == Init /\ [][NextKeys]_vars

(* ------------------------------- claims -------------------------------- *)
\* the subscription object the map holds for key
Subscription(key) == subObjs[subscriptions[key]]

\* C1: when the last listener of a key unsubscribes, the connection registered
\* for the key is closed (no longer connecting or open), getState(key) is
\* undefined and no reconnect timer remains, whatever state the socket was in.
C1_LastUnsubscribeClosesAndDiscards ==
  [][\A key \in Keys, callback \in Callbacks :
       (/\ subscriptions[key] # NoSub
        /\ Subscription(key).callbacks = <<callback>>
        /\ Unsubscribe(key, callback))
       => /\ subscriptions'[key] = NoSub
          /\ reconnectTimers'[key] = NoTimer
          /\ connections'[key] = NoSock
          /\ connections[key] # NoSock => ~Alive(sockets'[connections[key]])]_vars

\* the sockets of key that are connecting or open
LiveSockets(key) == {s \in SockIds : sockets[s].key = key /\ Alive(sockets[s])}

\* C2: in every reachable state a key has at most one socket that is connecting
\* or open, and exactly one while its state is CONNECTING or CONNECTED.
C2_OneLiveSocketPerKey ==
  \A key \in Keys :
    /\ Cardinality(LiveSockets(key)) <= 1
    /\ getState(key) \in {"CONNECTING", "CONNECTED"} => Cardinality(LiveSockets(key)) = 1

\* C3: a subscribe call on a key whose subscription exists only adds its listener
\* and creates no socket; the call that creates the subscription creates exactly
\* one socket (for a URL the WebSocket constructor accepts) and registers it.
C3_OneConnectionPerKey ==
  [][\A key \in Keys, url \in Urls, callback \in Callbacks, max \in AttemptLimits :
       (<<key, callback>> \in handles' /\ Subscribe(key, url, callback, max)) =>
         IF subscriptions[key] # NoSub
         THEN /\ sockets' = sockets
              /\ connections' = connections
              /\ reconnectTimers' = reconnectTimers
              /\ subscriptions' = subscriptions
              /\ subObjs' = [subObjs EXCEPT ![subscriptions[key]].callbacks = SetAdd(@, callback)]
         ELSE /\ subscriptions'[key] # NoSub
              /\ Len(sockets') <= Len(sockets) + 1
              /\ CanConstruct(url) =>
                   /\ sockets' = Append(sockets, [key |-> key, sub |-> subscriptions'[key],
                                                  readyState |-> "CONNECTING"])
                   /\ connections'[key] = Len(sockets')]_vars

\* C3 witness: two listeners were subscribed on one key and the key has one socket
C3_Witness ==
  \E key \in Keys :
    /\ subscriptions[key] # NoSub
    /\ Len(Subscription(key).callbacks) = 2
    /\ Len(sockets) = 1
    /\ connections[key] = 1

\* C4: an unsubscribe that leaves a listener changes nothing but the listener
\* set (sockets, registry, timers and subscription stay); an unsubscribe changes
\* a socket or drops the subscription only when it removes the last listener;
\* and a message on a socket of the key's subscription reaches every listener
\* that is left.
C4_ConnectionKeptWhileListenersRemain ==
  [][/\ \A key \in Keys, callback \in Callbacks :
          (subscriptions[key] # NoSub /\ <<key, callback>> \notin live'
             /\ Unsubscribe(key, callback)) =>
            IF SetDelete(Subscription(key).callbacks, callback) # <<>>
            THEN /\ sockets' = sockets
                 /\ connections' = connections
                 /\ reconnectTimers' = reconnectTimers
                 /\ subscriptions' = subscriptions
                 /\ subObjs' = [subObjs EXCEPT ![subscriptions[key]].callbacks =
                                                  SetDelete(@, callback)]
            ELSE Subscription(key).callbacks = <<callback>>
     /\ \A s \in SockIds :
          (SocketMessage(s, TRUE) /\ sockets[s].sub = subscriptions[sockets[s].key]) =>
            SeqToSet(dispatch'.delivered) = SeqToSet(Subscription(sockets[s].key).callbacks)]_vars

\* C4 witness: of two registrations on the key one was unsubscribed, the socket
\* is still registered and open, and the listener that is left got a message
C4_Witness ==
  \E key \in Keys :
    /\ Cardinality({c \in Callbacks : <<key, c>> \in handles}) = 2
    /\ Cardinality({c \in Callbacks : <<key, c>> \in live}) = 1
    /\ subscriptions[key] # NoSub
    /\ connections[key] # NoSock
    /\ sockets[connections[key]].readyState = "OPEN"
    /\ Len(sockets) = 1
    /\ Len(dispatch.delivered) = 1
    /\ <<key, dispatch.delivered[1]>> \in live

BackoffTable == <<1000, 2000, 4000, 8000, 16000>>

\* C5: for a subscription with maxReconnectAttempts = 5 the delays scheduled
\* since its creation or last open are, in order, 1000, 2000, 4000, 8000, 16000
\* (never a sixth), the pending timer carries the delay scheduled last, and a
\* close processed with the five attempts used sets FAILED and schedules nothing.
C5_BackoffSequence ==
  [][/\ \A key \in Keys :
          (subscriptions'[key] # NoSub /\ subObjs'[subscriptions'[key]].maxReconnectAttempts = 5) =>
            LET log == delayLog'[subscriptions'[key]] IN
            /\ Len(log) <= 5
            /\ log = SubSeq(BackoffTable, 1, Len(log))
            /\ Len(log) = subObjs'[subscriptions'[key]].reconnectAttempts
            /\ (reconnectTimers'[key] # reconnectTimers[key] /\ reconnectTimers'[key] # NoTimer) =>
                  (Len(log) > 0 /\ reconnectTimers'[key] = log[Len(log)])
     /\ \A s \in SockIds :
          LET key == sockets[s].key IN
          (/\ sockets[s].sub = subscriptions[key]
           /\ Subscription(key).callbacks # <<>>
           /\ Subscription(key).maxReconnectAttempts = 5
           /\ Subscription(key).reconnectAttempts = 5
           /\ SocketClose(s))
          => /\ subscriptions'[key] # NoSub
             /\ subObjs'[subscriptions'[key]].state = "FAILED"
             /\ reconnectTimers'[key] = reconnectTimers[key]
             /\ delayLog'[subscriptions'[key]] = BackoffTable]_vars

\* C5 witness: a subscription whose sockets kept closing went through the five
\* delays and failed
C5_Witness ==
  \E key \in Keys :
    /\ subscriptions[key] # NoSub
    /\ CanConstruct(Subscription(key).url)
    /\ Subscription(key).maxReconnectAttempts = 5
    /\ Subscription(key).state = "FAILED"
    /\ delayLog[subscriptions[key]] = BackoffTable
    /\ reconnectTimers[key] = NoTimer
    /\ sockets = <<>>

\* C6: whenever getState(key) is FAILED the attempts are exhausted and no timer
\* is pending; from FAILED the state stays FAILED and no socket is created for
\* the key until the subscription is discarded.
C6_FailedIsTerminal ==
  [][\A key \in Keys :
       /\ (subscriptions'[key] # NoSub /\ subObjs'[subscriptions'[key]].state = "FAILED") =>
            /\ subObjs'[subscriptions'[key]].reconnectAttempts
                  >= subObjs'[subscriptions'[key]].maxReconnectAttempts
            /\ reconnectTimers'[key] = NoTimer
       /\ (getState(key) = "FAILED" /\ subscriptions'[key] # NoSub) =>
            /\ subObjs'[subscriptions'[key]].state = "FAILED"
            /\ Len(sockets') <= Len(sockets)]_vars

\* C7: a message that parses is delivered, in registration order, to every
\* listener of the socket's subscription, whichever of them throw; nothing
\* escapes the handler and the manager's state is unchanged. On a socket of the
\* key's current subscription these are all the listeners registered for the key.
C7_DispatchIsolatesListeners ==
  [][\A s \in SockIds :
       SocketMessage(s, TRUE) =>
         /\ dispatch'.delivered = subObjs[sockets[s].sub].callbacks
         /\ dispatch'.threw = Throwing \cap SeqToSet(subObjs[sockets[s].sub].callbacks)
         /\ ~dispatch'.escaped
         /\ subObjs' = subObjs
         /\ subscriptions' = subscriptions
         /\ sockets[s].sub = subscriptions[sockets[s].key] =>
              dispatch'.delivered = Subscription(sockets[s].key).callbacks]_vars

\* C7 witness: the first of two listeners threw and the second still got the message
C7_Witness ==
  /\ Len(dispatch.delivered) = 2
  /\ dispatch.delivered[1] \in dispatch.threw
  /\ dispatch.delivered[2] \notin dispatch.threw

\* C8: a callback whose unsubscribe function has returned (and that was not
\* subscribed again on the key) is not invoked by any later message of the key.
C8_NoCallbackAfterUnsubscribe ==
  [][\A s \in SockIds :
       SocketMessage(s, TRUE) =>
         \A c \in SeqToSet(dispatch'.delivered) : <<sockets[s].key, c>> \in live]_vars

\* C9: destroy() leaves no socket connecting or open, no timer and empty
\* registries; the listeners of a subscription that is no longer in the registry
\* are never invoked.
C9_DestroyClosesEverything ==
  [][/\ Destroy =>
          /\ \A s \in 1..Len(sockets') : ~Alive(sockets'[s])
          /\ \A key \in Keys : /\ subscriptions'[key] = NoSub
                                /\ connections'[key] = NoSock
                                /\ reconnectTimers'[key] = NoTimer
     /\ \A s \in SockIds :
          (SocketMessage(s, TRUE) /\ sockets[s].sub # subscriptions[sockets[s].key]) =>
            dispatch'.delivered = <<>>]_vars

\* the expiry given for an entry: the argument of set, the default when omitted
GivenExpiry(item) == IF item.given = Undefined THEN item.expiry ELSE item.given

\* C10: get(k) right after set(k, v, e) returns v; a get of an entry older than
\* the expiry given for it returns absent and removes it, so that has(k) is
\* false; no get returns a value older than the expiry given for it.
C10_CacheRoundTrip ==
  [][\A key \in CacheKeys :
       /\ \A data \in Payloads, expiry \in Expiries :
            Set(key, data, expiry) => getResult(cache', key) = data
       /\ (Get(key) /\ IndexOf(cache, key) # 0) =>
            LET item == cache[IndexOf(cache, key)] IN
            IF now - item.timestamp > GivenExpiry(item)
            THEN /\ ret' = "null"
                 /\ IndexOf(cache', key) = 0
                 /\ hasResult(cache', key) = "false"
            ELSE ret' = item.data]_vars

\* the keys the Map holds
StoredKeys(c) == {c[i].key : i \in 1..Len(c)}

\* C11: a set of a new key into a cache that holds maxSize live entries evicts
\* exactly one entry, the least recently used one (a use is the insertion of the
\* key or a get hit); no set removes an entry other than the least recently
\* used one.
C11_LruEviction ==
  [][\A key \in CacheKeys, data \in Payloads, expiry \in Expiries :
       /\ (/\ IndexOf(cache, key) = 0
           /\ Len(cache) = maxSize
           /\ \A i \in 1..Len(cache) : ~Expired(cache[i])
           /\ Set(key, data, expiry))
          => /\ StoredKeys(cache') = (StoredKeys(cache) \ {recency[1]}) \cup {key}
             /\ Len(cache') = Len(cache)
             /\ evicted' = <<cache[IndexOf(cache, recency[1])]>>
       /\ Set(key, data, expiry) =>
             \A k \in StoredKeys(cache) \ StoredKeys(cache') : k = recency[1]]_vars

\* C11 witness: a was stored before b, a get hit on a made b the least recently
\* used entry, and the set of c evicted b and kept a
C11_Witness ==
  /\ maxSize = 2
  /\ Len(cache) = 2
  /\ cache[1].key = "a" /\ cache[2].key = "c"
  /\ Len(evicted) = 1
  /\ evicted[1].key = "b"
  /\ cache[1].timestamp < evicted[1].timestamp
  /\ \A i \in 1..2 : ~Expired(cache[i])

\* C12: a set on a stored key overwrites its value and removes no other key;
\* a set evicts only when the store is at capacity and the key is new.
C12_OverwriteKeepsOthers ==
  [][\A key \in CacheKeys, data \in Payloads, expiry \in Expiries :
       Set(key, data, expiry) =>
         /\ IndexOf(cache, key) # 0 =>
               /\ StoredKeys(cache') = StoredKeys(cache)
               /\ cache'[IndexOf(cache', key)].data = data
         /\ evicted' # <<>> => (Len(cache) >= maxSize /\ IndexOf(cache, key) = 0)]_vars

\* C13: when a set has completed the store holds at most maxSize entries, also
\* after the maximum was lowered with setMaxSize.
C13_SizeBounded ==
  [][\A key \in CacheKeys, data \in Payloads, expiry \in Expiries :
       Set(key, data, expiry) => Len(cache') <= maxSize']_vars

C15_FirstSuccessEndsTheCall ==
  [][/\ \A response \in Responses(MaxRecords) :
          (/\ fetch.pc = "fetching"
           /\ fetch'.pc = "returned"
           /\ FetchSettles(response))
          => /\ fetch'.requests = fetch.attempt
             /\ fetch'.waits = SubSeq(<<1000, 2000>>, 1, fetch.attempt - 1)
             /\ fetch'.error = NoError
             /\ fetch.cacheKey = "btcusdt_1m_100"
             /\ IF source.enableCache
                THEN /\ IndexOf(cache', "btcusdt_1m_100") # 0
                     /\ cache'[IndexOf(cache', "btcusdt_1m_100")].data = fetch'.result
                     /\ cache'[IndexOf(cache', "btcusdt_1m_100")].timestamp = now
                ELSE cache' = cache
     /\ (fetch.pc = "returned" /\ fetch' # fetch) =>
          \E symbol \in Symbols, interval \in Intervals, limit \in Limits :
            FetchHistorical(symbol, interval, limit)]_vars

\* C15 witness: attempt 1 got an HTTP error, attempt 2 succeeded after one wait
\* of 1000 ms and its candles are in the cache
C15_Witness ==
  /\ source.enableCache
  /\ fetch.pc = "returned"
  /\ fetch.requests = 2
  /\ fetch.waits = <<1000>>
  /\ fetch.lastError = "HTTP_ERROR"
  /\ Len(fetch.result) > 0
  /\ Hit(cache, "btcusdt_1m_100")

\* C16: with caching enabled and an entry that is not expired under the key of
\* the lower-cased symbol, the interval and the limit, fetchHistorical returns
\* that entry and makes no request; otherwise it goes to the network.
C16_CacheFirst ==
  [][\A symbol \in Symbols, interval \in Intervals, limit \in Limits :
       (/\ fetch.pc \in {"idle", "returned", "thrown"}
        /\ fetch'.pc \in {"returned", "fetching"}
        /\ fetch'.requests = 0
        /\ FetchHistorical(symbol, interval, limit)) =>
         LET key == "btcusdt_" \o interval \o "_" \o ToString(limit) IN
         IF /\ source.enableCache
            /\ \E i \in 1..Len(cache) :
                 cache[i].key = key /\ now - cache[i].timestamp <= cache[i].expiry
         THEN /\ fetch'.pc = "returned"
              /\ fetch'.requests = 0
              /\ fetch'.result = cache[IndexOf(cache, key)].data
         ELSE /\ fetch'.pc = "fetching"
              /\ fetch'.requests = 0
              /\ fetch'.attempt = 1]_vars

\* C16 witness: an upper-case call was answered from the cache without a request
C16_Witness ==
  /\ source.enableCache
  /\ fetch.symbol = "BTCUSDT"
  /\ fetch.pc = "returned"
  /\ fetch.requests = 0
  /\ Len(fetch.result) > 0
  /\ Hit(cache, "btcusdt_1m_100")

HasNaN(candle) ==
  NaN \in {candle.time, candle.open, candle.high, candle.low, candle.close}

C18_BadRecordIsSkipped ==
  [][\A response \in Responses(MaxRecords) :
       (/\ fetch.pc = "fetching"
        /\ response.kind = "array"
        /\ FetchSettles(response))
       => /\ fetch'.pc = "returned"
          /\ fetch'.result = SelectSeq([i \in 1..Len(response.items) |->
                                          IF response.items[i] = GoodKline
                                          THEN GoodCandle ELSE NoError],
                                       LAMBDA c : c # NoError)]_vars

\* C19: a stream message without k, or with a t, o, h, l or c that is no number,
\* is dropped by both consumers: the data source keeps no candle of it and
\* schedules nothing, the hook does not call onUpdate and leaves the query data
\* and its latest candle as they are.
C19_MalformedIsDropped ==
  [][\A message \in Messages \ ValidMsgs :
       /\ (stream.active /\ StreamMessage(message)) =>
            /\ stream'.latestData = stream.latestData
            /\ stream'.scheduled = stream.scheduled
            /\ stream'.rafId = stream.rafId
       /\ (hook.mounted /\ HookMessage(message)) =>
            /\ hook'.updated = <<>>
            /\ hook'.series = hook.series
            /\ hook'.latestDataRef = hook.latestDataRef]_vars

\* C20: a frame invokes the callback at most once, with the candle of the last
\* valid message received since the previous invocation; while the subscription
\* is active a valid candle that was not yet given to the callback has a frame
\* callback scheduled that will deliver it.
C20_LatestCandlePerFrame ==
  [][/\ Frame =>
          /\ Len(stream'.emitted) <= 1
          /\ Len(stream'.emitted) = 1 => <<stream'.emitted[1]>> = stream.lastValid
     /\ (stream'.active /\ stream'.lastValid # <<>>) => stream'.scheduled > 0]_vars

\* C21: BinanceDataSource.destroy() removes only the entries this client wrote:
\* an entry another client stored in the shared cache is still retrievable, with
\* the same payload, after the call; and the call leaves the shared connection
\* manager's subscriptions, sockets and timers as they are.
C21_DestroyKeepsOtherClients ==
  [][SourceDestroy =>
       /\ \A key \in OtherClientKeys :
            Hit(cache, key) => /\ Hit(cache', key)
                               /\ getResult(cache', key) = getResult(cache, key)
       /\ UNCHANGED mgrVars]_vars

\* every price and every quantity of the update is a decimal string
Parsable(data) ==
  /\ data.sides
  /\ \A updates \in {data.b, data.a} : \A i \in 1..Len(updates) :
       Decimal(updates[i][1]) # NaN /\ Decimal(updates[i][2]) # NaN

\* every price in the book is a decimal string
WellFormed(book) ==
  \A levels \in {book.bids, book.asks} : \A i \in 1..Len(levels) :
    Decimal(levels[i].price) # NaN

\* the levels of a side with the updates inserted, overwritten or removed: the
\* last update of a price decides, a zero quantity removes the price
Merged(levels, updates) ==
  LET touched == {updates[i][1] : i \in 1..Len(updates)}
      last(p) == updates[CHOOSE i \in 1..Len(updates) :
                   updates[i][1] = p /\ \A j \in (i + 1)..Len(updates) : updates[j][1] # p][2]
  IN {level \in SeqToSet(levels) : level.price \notin touched}
       \cup {[price |-> p, quantity |-> last(p)] : p \in {q \in touched : Decimal(last(q)) # 0}}

\* priceA is strictly better than priceB: higher for bids, lower for asks
Better(priceA, priceB, isBid) ==
  IF isBid THEN Decimal(priceA) > Decimal(priceB) ELSE Decimal(priceA) < Decimal(priceB)

\* levels are the best at most hundred members of merged, best first, strictly
BestOf(levels, merged, isBid) ==
  /\ Len(levels) = Min(Cardinality(merged), 100)
  /\ SeqToSet(levels) \subseteq merged
  /\ \A i \in 1..(Len(levels) - 1) : Better(levels[i].price, levels[i + 1].price, isBid)
  /\ \A level \in merged \ SeqToSet(levels) : \A i \in 1..Len(levels) :
       Better(levels[i].price, level.price, isBid)

PricesOf(levels) == {levels[i].price : i \in 1..Len(levels)}

C24_BatchIsAtomic ==
  [][\A data \in Batches :
       UpdateOrderBook(data) =>
         /\ Parsable(data) /\ WellFormed(orderBook) =>
              /\ orderBook'.bids = updateLevels(orderBook.bids, data.b, TRUE).value
              /\ orderBook'.asks = updateLevels(orderBook.asks, data.a, FALSE).value
         /\ ~Parsable(data) => orderBook' = orderBook]_vars

\* the levels the book holds, of both sides
BookPrices == PricesOf(orderBook.bids) \cup PricesOf(orderBook.asks)

\* C25: once the order-book subscription is reinitialised for a new symbol (the
\* store reset, a socket opened for the new symbol), the store never again holds
\* a level that a socket of another symbol delivered, whatever the timing of the
\* change.
C25_NoLevelOfPreviousSymbol ==
  depth.symbol # "" => BookPrices \subseteq FeedPrices(depth.symbol)

\* the candles of the query data, and the last of them
Candles == hook.series.candles

\* C26: merging a live kline into the cached series: a message with the open
\* time of the last cached candle replaces that candle and leaves the length and
\* the earlier candles as they are; a message with a greater open time appends
\* one candle and leaves the existing ones as they are; the candles before the
\* last one are never modified.
C26_MergeReplacesOrAppends ==
  [][\A message \in ValidMsgs \cup {LaterMsg, EarlierMsg} :
       (/\ HookMessage(message)
        /\ hook.onUpdate \notin Throwing
        /\ hook.series.defined /\ Candles # <<>>)
       => LET data == toCandle(message)
              n == Len(Candles)
              merged == hook'.series.candles
          IN /\ data.time = Candles[n].time =>
                  /\ Len(merged) = n
                  /\ merged[n] = data
             /\ data.time > Candles[n].time =>
                  /\ Len(merged) = n + 1
                  /\ merged[n + 1] = data
                  /\ merged[n] = Candles[n]
             /\ Len(merged) >= n
             /\ \A i \in 1..(n - 1) : merged[i] = Candles[i]]_vars

\* the last of two cached candles was replaced by an update of the same kline
C26_Witness ==
  /\ hook.mounted /\ hook.onUpdate \notin Throwing
  /\ hook.updated = <<toCandle(UpdateMsg)>>
  /\ Candles = <<EarlyCandle, toCandle(UpdateMsg)>>

\* C27: a cached series that starts strictly ascending by open time stays
\* strictly ascending, without a duplicate open time, after any sequence of
\* merges, whatever the open time of each message (equal to, greater than or
\* smaller than that of the last cached candle).
C27_SeriesStaysAscending ==
  \A i \in 1..(Len(Candles) - 1) : Candles[i].time < Candles[i + 1].time

\* C28: after n addTrade calls since the last reset the list holds the
\* min(n, 50) most recent trades, newest first, and lastPrice is the price of
\* the last trade added; reset empties the list.
C28_LastFiftyTrades ==
  [][/\ tradeStore'.trades = SubSeq(added', 1, Min(Len(added'), 50))
     /\ added' # <<>> => tradeStore'.lastPrice = added'[1].price
     /\ TradeReset => tradeStore'.trades = <<>>]_vars

\* the fifty-first trade since the reset pushed the oldest one out of the list
C28_Witness ==
  /\ Len(added) = 51
  /\ Len(tradeStore.trades) = 50
  /\ tradeStore.trades[1].id = 51
  /\ tradeStore.trades[50].id = 2

\* the sockets, connecting or open, of the subscriptions registered for url
SocketsOfUrl(url) ==
  {s \in SockIds : /\ Alive(sockets[s])
                   /\ \E key \in Keys : /\ subscriptions[key] = sockets[s].sub
                                        /\ subscriptions[key] # NoSub
                                        /\ Subscription(key).url = url}

\* C29: subscriptions with the same endpoint URL share one physical socket: at
\* any time there is at most one WebSocket, connecting or open, per distinct
\* URL, whichever keys the subscriptions were registered under.
C29_OneSocketPerUrl ==
  \A url \in Urls : Cardinality(SocketsOfUrl(url)) <= 1

\* the transitions of the documented connection lifecycle
LifecycleEdges ==
  {<<"CONNECTING", "CONNECTED">>, <<"CONNECTED", "DISCONNECTED">>,
   <<"DISCONNECTED", "RECONNECTING">>, <<"RECONNECTING", "CONNECTED">>,
   <<"RECONNECTING", "FAILED">>}

\* the pairs of states joined by one to n of these transitions in a row
RECURSIVE PathsWithin(_)
PathsWithin(n) ==
  IF n <= 1 THEN LifecycleEdges
  ELSE LET shorter == PathsWithin(n - 1)
       IN shorter \cup {<<x[1][1], x[2][2]>> :
                          x \in {y \in shorter \X LifecycleEdges : y[1][2] = y[2][1]}}

LifecyclePaths == PathsWithin(4)

\* C30: the state getState(key) reports changes only along the lifecycle
\* CONNECTING -> CONNECTED -> DISCONNECTED -> RECONNECTING -> (CONNECTED |
\* FAILED): every change of the state of a subscription, from one handler to
\* the next, is one of these transitions or several of them in a row.
C30_LifecycleOrder ==
  [][\A key \in Keys :
       (/\ subscriptions[key] # NoSub
        /\ subscriptions'[key] # NoSub
        /\ getState(key)' # getState(key))
       => <<getState(key), getState(key)'>> \in LifecyclePaths]_vars

\* C31: when the close event of a socket of a registered subscription is
\* processed and the subscription has a listener and attempts left, a reconnect
\* timer is pending for the key afterwards (the one entry the timer map has for
\* the key), the attempt is counted and the state is RECONNECTING; when the
\* socket's subscription has no listener, the close schedules nothing.
C31_CloseSchedulesOneReconnect ==
  [][\A s \in SockIds :
       SocketClose(s) =>
         LET key == sockets[s].key
             id == sockets[s].sub
         IN /\ (/\ subscriptions[key] = id
                /\ Len(subObjs[id].callbacks) > 0
                /\ subObjs[id].reconnectAttempts < subObjs[id].maxReconnectAttempts)
               => /\ reconnectTimers'[key] = Backoff(subObjs[id].reconnectAttempts + 1)
                  /\ subscriptions'[key] # NoSub
                  /\ subObjs'[subscriptions'[key]].state = "RECONNECTING"
                  /\ subObjs'[subscriptions'[key]].reconnectAttempts
                       = subObjs[id].reconnectAttempts + 1
                  /\ Len(sockets') < Len(sockets)
            /\ Len(subObjs[id].callbacks) = 0
               => /\ reconnectTimers' = reconnectTimers
                  /\ Len(sockets') < Len(sockets)]_vars

\* a socket of a subscription with a listener closed: one timer is pending
C31_Witness ==
  /\ subscriptions["k1"] # NoSub
  /\ Subscription("k1").callbacks # <<>>
  /\ Subscription("k1").state = "RECONNECTING"
  /\ Subscription("k1").reconnectAttempts = 1
  /\ reconnectTimers["k1"] = Backoff(1)
  /\ connections["k1"] = NoSock
  /\ sockets = <<>>

\* C32: with the cache enabled, when the first of two fetchHistorical calls
\* for one symbol, interval and limit has fetched successfully and the second
\* began before the first's entry expired, or while the first was still in
\* flight, the second call has issued no network request.
C32_OnlyFirstCallRequests ==
  (/\ source.enableCache
   /\ fetch.pc = "returned"
   /\ fetch.requests > 0
   /\ second.pc # "idle"
   /\ second.cacheKey = fetch.cacheKey
   /\ \/ second.during \in {"fetching", "waiting"}
      \/ second.during = "returned" /\ second.fresh)
  => second.requests = 0

\* C33: once the last listener of a key has unsubscribed and a new subscribe
\* has made a new subscription and socket for the key, the late open, error or
\* close event of the old socket leaves the new subscription's state as it is
\* and leaves the new socket registered for the key.
C33_LateEventsLeaveNewSubscription ==
  [][\A s \in SockIds :
       LET key == sockets[s].key IN
       (/\ subscriptions[key] # NoSub
        /\ sockets[s].sub # subscriptions[key]
        /\ subObjs[sockets[s].sub].callbacks = <<>>
        /\ connections[key] \notin {NoSock, s}
        /\ sockets[connections[key]].sub = subscriptions[key]
        /\ (SocketOpen(s) \/ SocketError(s) \/ SocketClose(s)))
       => /\ subscriptions'[key] # NoSub
          /\ subObjs'[subscriptions'[key]].state = Subscription(key).state
          /\ connections'[key] # NoSock
          /\ sockets'[connections'[key]].sub = subscriptions'[key]
          /\ sockets'[connections'[key]].readyState
               = sockets[connections[key]].readyState]_vars

\* C34: once the subscriber callback of BinanceDataSource.subscribe has thrown
\* in a frame's delivery, a valid candle received afterwards, while the
\* subscription is active, is still kept as the latest candle and has a frame
\* callback scheduled that will deliver it.
C34_ThrowDoesNotStopStream ==
  [][\A message \in ValidMsgs :
       (stream.active /\ stream.threw /\ StreamMessage(message))
       => /\ stream'.latestData = <<toCandle(message)>>
          /\ stream'.scheduled > 0]_vars

C36_AttemptsWithinLimit ==
  \A key \in Keys :
    subscriptions[key] # NoSub =>
      /\ Subscription(key).reconnectAttempts \in 0..Subscription(key).maxReconnectAttempts
      /\ Subscription(key).state = "CONNECTED" => Subscription(key).reconnectAttempts = 0

\* C36 witness: the subscription is at its last attempt, its fifth reconnect
\* pending with the capped delay
C36_Witness ==
  /\ subscriptions["k1"] # NoSub
  /\ Subscription("k1").reconnectAttempts = Subscription("k1").maxReconnectAttempts
  /\ Subscription("k1").maxReconnectAttempts = 5
  /\ Subscription("k1").state = "RECONNECTING"
  /\ reconnectTimers["k1"] = Backoff(5)

\* C37: whenever a reconnect timer is pending for a key, outside the task of a
\* socket failure, the subscription of the key exists, has at least one
\* listener and is RECONNECTING, and no socket is registered for the key. (The
\* timers map holds at most one timer per key.)
C37_TimerMeansReconnecting ==
  \A key \in Keys :
    (reconnectTimers[key] # NoTimer /\ ~InTask) =>
      /\ subscriptions[key] # NoSub
      /\ Len(Subscription(key).callbacks) > 0
      /\ Subscription(key).state = "RECONNECTING"
      /\ connections[key] = NoSock

\* C38: the call of a stale unsubscribe closure (one that was invoked before,
\* or whose subscription destroy() discarded) removes no listener of the
\* current subscription of its key, discards no subscription and closes no
\* connection.
C38_StaleUnsubscribeIsHarmless ==
  [][\A key \in Keys, callback \in Callbacks :
       (<<key, callback>> \in closures.stale /\ UnsubscribeTracked(key, callback))
       => /\ subscriptions' = subscriptions
          /\ connections' = connections
          /\ subscriptions[key] # NoSub =>
               subObjs'[subscriptions[key]].callbacks = Subscription(key).callbacks
          /\ Len(sockets') = Len(sockets)
          /\ \A s \in SockIds : sockets'[s].readyState = sockets[s].readyState]_vars

\* C39 as claimed: when one callback was passed to two subscribe calls of a
\* key, the call of one of the two unsubscribe closures leaves the callback
\* registered and the connection of the key as it is.
C39_RegistrationsAreIndependent ==
  [][\A key \in Keys, callback \in Callbacks :
       (<<key, callback>> \in closures.twice /\ UnsubscribeTracked(key, callback))
       => /\ subscriptions'[key] # NoSub
          /\ callback \in SeqToSet(subObjs'[subscriptions'[key]].callbacks)
          /\ connections' = connections
          /\ Len(sockets') = Len(sockets)
          /\ \A s \in SockIds : sockets'[s].readyState = sockets[s].readyState]_vars

\* C39 amended: the listeners of a key are a set. A subscribe call with a
\* callback the subscription holds already changes nothing of the manager, and
\* the call of one of the two closures removes the callback: if it was the only
\* listener the subscription, the registered socket and the timer of the key
\* are discarded, and otherwise the other listeners and the connection stay.
C39_CallbackIsRegisteredOnce ==
  [][\A key \in Keys, callback \in Callbacks :
       /\ \A url \in Urls, max \in FewAttempts :
            (/\ subscriptions[key] # NoSub
             /\ callback \in SeqToSet(Subscription(key).callbacks)
             /\ SubscribeTracked(key, url, callback, max))
            => /\ <<subscriptions', subObjs', connections', sockets', reconnectTimers'>>
                    = <<subscriptions, subObjs, connections, sockets, reconnectTimers>>
               /\ <<key, callback>> \in closures'.twice
       /\ (<<key, callback>> \in closures.twice /\ UnsubscribeTracked(key, callback))
          => IF Subscription(key).callbacks = <<callback>>
             THEN /\ subscriptions'[key] = NoSub
                  /\ connections'[key] = NoSock
                  /\ reconnectTimers'[key] = NoTimer
                  /\ (/\ connections[key] # NoSock
                      /\ sockets[connections[key]].readyState = "OPEN")
                     => sockets'[connections[key]].readyState = "CLOSING"
             ELSE /\ subscriptions'[key] # NoSub
                  /\ subObjs'[subscriptions'[key]].callbacks
                       = SetDelete(Subscription(key).callbacks, callback)
                  /\ connections' = connections
                  /\ sockets' = sockets]_vars

\* C39 witness: f was subscribed twice on k1, one of the two closures was
\* invoked, and the subscription and its open connection are gone
C39_Witness ==
  /\ <<"k1", "f">> \in closures.left
  /\ live = {}
  /\ subscriptions["k1"] = NoSub
  /\ connections["k1"] = NoSock
  /\ sockets = <<[key |-> "k1", sub |-> 1, readyState |-> "CLOSING"]>>

====
